---------------------------- MODULE Spec2Model ----------------------------
(***************************************************************************)
(* EchoTrace hub: the narrative state (hub/narrative_state.py) and the hub *)
(* coordinator (hub/hub_listener.py) as state machines.                    *)
(*                                                                         *)
(* Node ids are modelled by their rank in lexicographic order: node i      *)
(* stands for the i-th id of the installation ("object1" < "object2" ...), *)
(* so that sorted() on ids is the numeric order on ranks.                  *)
(***************************************************************************)
EXTENDS Integers, Sequences, FiniteSets, TLC

\* ------------------------------------------------------------------ bounds
NumNodes == 2
MaxRequired == 2
MaxCalls == 6
NumHttp == 2
MaxTriggers == 2
MaxAcks == 2
MaxResets == 1
MaxPushes == 2
\* node: last second of the clock, config and state messages delivered
MaxTime == 10
MaxConfigMsgs == 2
MaxStateMsgs == 3
\* logger: last day number, record / close / restart calls made
MaxDay == 2
MaxLogCalls == 5
\* set_per_node_override calls
MaxStoreCalls == 2
\* rows of the latest log file
MaxRows == 3
\* health messages dispatched, and the hub's wall clock in seconds
MaxHealth == 2
MaxWall == 2

\* pi_nodes/node_service.py lines 42-44, in whole seconds
HEARTBEAT_INTERVAL_SECONDS == 15
RETRIGGER_COOLDOWN_SECONDS == 5
STORY_RESET_SECONDS == 8

Nodes == 1..NumNodes
\* HTTP worker threads that call the coordinator's public methods
Http == 1..NumHttp

VARIABLES
    \* NarrativeState (hub/narrative_state.py)
    required_fragments,
    triggered_whispers,
    unlocked,
    \* observation of the calls made on the NarrativeState object
    passed,        \* ids passed to register_trigger since creation / last reset
    lastCall,      \* the last call, its argument, result and pre-state
    rises,         \* rising edges of unlocked since creation / last reset
    calls,         \* number of calls made
    \* HubListener (hub/hub_listener.py)
    hubPc,         \* "created" until start() has run
    conn,          \* outcome of the last _on_connect callback
    subscriptions, \* wildcards the client is subscribed to
    net,           \* the network thread: handler position and locals
    http,          \* per HTTP thread: call position and locals
    ack_events,    \* _ack_events: node -> waiting Event (0: none)
    evSet,         \* the Events of calls in progress whose flag is set
    ack_lock,      \* _ack_lock: the thread that holds it (Free: none)
    log,           \* rows appended by CsvEventLogger.record_event
    retained,      \* the broker's retained message on state/hub
    triggersIn,    \* trigger messages dispatched so far
    acksIn,        \* ack messages dispatched so far
    resets,        \* reset_state calls started so far
    pushes,        \* push_node_config calls started so far
    pubFailed,     \* some state/hub publish returned an error code
    everRaced,     \* a reset_state call overlapped a trigger handler
    \* NodeService (pi_nodes/node_service.py) and its AudioPlayer
    nodePc,        \* "off" until NodeService.__init__ has run
    config,        \* self.config: role and the three settings groups
    story,         \* the story fields: cooldown, pending start, latch ...
    audio,         \* AudioPlayer: _safety_limit and the mixer's volume
    thr,           \* the loop thread and the MQTT thread: position, locals
    clock,         \* time.time(), in whole seconds
    outbox,        \* the messages published by the step just taken
    nodeObs,       \* observation of readings, messages and story starts
    \* CsvEventLogger (hub/logging_utils.py) and its logs directory
    utc_date,      \* the UTC date of the wall clock, as a day number
    logs_dir,      \* per date: whether <date>_events.csv exists, its lines
    logger,        \* _current_date and the file the writer appends to
    csvObs,        \* observation of the calls made on the logger
    event_logger,  \* the hub's logger while several threads call it
    \* the Flask dashboard (hub/dashboard_app.py)
    dash,          \* the app: credentials, its NarrativeState, last response
    \* the accessibility store (hub/accessibility_store.py)
    store,         \* the profiles in memory, the YAML file, the last call
    \* ContentManager (hub/content_manager.py)
    content,       \* the active pack, the audio files on disk, the last call
    \* summarize_events (hub/logging_utils.py)
    analytics,     \* the rows of the latest log file, the summary returned
    \* HubRuntimeState (hub/hub_listener.py) and the hub's wall clock
    runtime,       \* last_seen per node, datetime.now(), heartbeats so far
    \* the MQTT broker between the hub and the nodes
    wire           \* config messages and acks in flight, what nodes merged

narrVars == <<required_fragments, triggered_whispers, unlocked>>
obsVars == <<passed, lastCall, rises, calls>>
hubVars == <<hubPc, conn, subscriptions, net, http, ack_events, evSet,
             ack_lock, log, retained, triggersIn, acksIn, resets, pushes,
             pubFailed, everRaced>>
nodeVars == <<nodePc, config, story, audio, thr, clock, outbox, nodeObs>>
csvVars == <<utc_date, logs_dir, logger, csvObs, event_logger>>
dashVars == <<dash>>
storeVars == <<store>>
contentVars == <<content>>
analyticsVars == <<analytics>>
runtimeVars == <<runtime>>
wireVars == <<wire>>
vars == <<narrVars, obsVars, hubVars, nodeVars, csvVars, dashVars, storeVars,
          contentVars, analyticsVars, runtimeVars, wireVars>>

\* ------------------------------------------------- NarrativeState methods

\* sorted(self.triggered_whispers): the ids in ascending order
RECURSIVE triggered_list(_)
triggered_list(tw) ==
    IF tw = {} THEN <<>>
    ELSE LET m == CHOOSE x \in tw : \A y \in tw : x <= y
         IN <<m>> \o triggered_list(tw \ {m})

\* NarrativeState.snapshot
snapshot(unl, tw) == [unlocked |-> unl, triggered |-> triggered_list(tw)]

\* an unlock that waits for one fragment more than required
unlock_condition_strict(unl, tw, req) == ~unl /\ Cardinality(tw) > req

\* line 26: the unlock condition, evaluated after the add
unlock_condition(unl, tw, req) == ~unl /\ Cardinality(tw) >= req

register_trigger_dup_true(unl, tw, req, n) ==
    IF n \in tw
    THEN [ret |-> TRUE, triggered |-> tw, unlocked |-> unl]
    ELSE LET tw2 == tw \cup {n}
         IN [ret |-> TRUE, triggered |-> tw2,
             unlocked |-> IF unlock_condition(unl, tw2, req) THEN TRUE ELSE unl]

\* NarrativeState.register_trigger as one call: result and post-state
register_trigger(unl, tw, req, n) ==
    IF n \in tw
    THEN [ret |-> FALSE, triggered |-> tw, unlocked |-> unl]
    ELSE LET tw2 == tw \cup {n}
         IN [ret |-> TRUE, triggered |-> tw2,
             unlocked |-> IF unlock_condition(unl, tw2, req) THEN TRUE ELSE unl]

reset_keep_unlocked(unl, tw) == [triggered |-> {}, unlocked |-> unl]

\* NarrativeState.reset as one call: post-state
reset(unl, tw) == [triggered |-> {}, unlocked |-> FALSE]

\* ------------------------------------------------------------ HubListener

on_connect_subscriptions_no_ack == {"health", "trigger"}

\* _on_connect, lines 179-181: the three ingest wildcards
on_connect_subscriptions == {"health", "trigger", "ack"}

\* payloads a node (or anything else on the bus) may send on trigger/<node>:
\* empty, a JSON object, other valid JSON, or text that is not JSON
PayloadKinds == {"empty", "object", "nonobject", "invalid"}

\* json.loads(payload) if payload else {}: does it raise JSONDecodeError?
json_decode_error(p) == p = "invalid"

\* paho return codes of publish / on_connect: 0 is MQTT_ERR_SUCCESS
ReturnCodes == {0, 4}

\* publish_state, line 160: the message handed to client.publish
hub_state_message(payload) ==
    [topic |-> "state/hub", qos |-> 1, retain |-> TRUE, payload |-> payload]

\* the broker keeps the last successfully published retained message
broker_retain(old, msg, rc) ==
    IF rc = 0 /\ msg.retain THEN <<msg.payload>> ELSE old

\* the broker hands a successfully published state/hub message to the
\* mystery node once that node has subscribed; the node reads its
\* "unlocked" member
broker_deliver(w, msg, rc) ==
    IF rc = 0 /\ w.subscribed
    THEN [w EXCEPT !.state =
             Append(@, IF msg.payload.unlocked THEN "true" ELSE "false")]
    ELSE w

\* CsvEventLogger.record_event: one row appended
record_event(rows, event, node, detail) ==
    Append(rows, [event |-> event, node |-> node, detail |-> detail])

\* dict.pop(node_id, None) on _ack_events
ack_pop(tbl, n) == [tbl EXCEPT ![n] = 0]

\* The network thread between messages.  Locals of a handler: node,
\* unlocked_before (before), is_new, the snapshot being built (snapU,
\* payload), the last message published (pub), the popped Event (ev).
\* Observations: regDone (register_trigger has returned), rose (it raised
\* unlocked), pubs (state/hub publishes of this handler), pubAfterReg,
\* raced (a reset_state call overlapped this handler), window (the pushes
\* whose wait was pending when the ack popped the table).
NetIdle ==
    [pc |-> "idle", node |-> 0, before |-> FALSE, is_new |-> FALSE,
     rose |-> FALSE, regDone |-> FALSE, snapU |-> FALSE, payload |-> <<>>,
     pub |-> <<>>, pubs |-> 0, pubAfterReg |-> FALSE, raced |-> FALSE,
     ev |-> 0, window |-> {}]

\* An HTTP thread between calls; result is what its last push_node_config
\* returned.  Locals of a call: node, ev (its Event), snapU, payload, pub.
\* Observations: published (the config publish succeeded), solo (no other
\* push for the node overlapped this call), ackSeen (an ack for the node
\* was handled, pop and set, while this push's wait was pending), replaced
\* (a later push overwrote this push's pending waiter), preempts (this push
\* overwrote a pending waiter), pubs, raced.
HttpIdle ==
    [pc |-> "idle", node |-> 0, ev |-> 0, result |-> FALSE,
     published |-> FALSE, solo |-> FALSE, ackSeen |-> FALSE,
     replaced |-> FALSE, preempts |-> FALSE, snapU |-> FALSE,
     payload |-> <<>>, pub |-> <<>>, pubs |-> 0, raced |-> FALSE]

TrigPcs == {"t_add", "t_cond", "t_set", "t_snapU", "t_snapT", "t_pub",
            "t_after", "t_logunlock"}
AckPcs == {"a_pop", "a_set"}
ResetPcs == {"r_unl", "r_snapU", "r_snapT", "r_pub", "r_log"}
PushPcs == {"p_reg", "p_pub", "p_wait", "p_popfail", "p_logok", "p_logto",
            "p_popto"}
\* the positions of push_node_config before a "with self._ack_lock" block
PushLockPcs == {"p_reg", "p_popfail", "p_popto"}
\* _ack_lock (threading.Lock, line 77) and the threads that take it
Free == <<>>
HttpThread(t) == <<"http", t>>
NetThread == <<"net">>
\* a push whose waiter is registered and whose wait has not expired
WaitingPcs == {"p_pub", "p_wait"}

TrigInProgress == net.pc \in TrigPcs
ResetInProgress == \E t \in Http : http[t].pc \in ResetPcs

NoCall == [op |-> "none", node |-> 0, ret |-> FALSE,
           pre_triggered |-> {}, pre_unlocked |-> FALSE]


\* ------------------------------------------------ node: values and messages
\* Times are whole seconds, volumes are percent (0.75 is 75), distances are
\* millimetres.  An optional value is a sequence of length 0 or 1.
None == <<>>
Some(x) == <<x>>

Roles == {"whisper", "mystery"}
\* mobility_buffer_ms values: none, one second, two seconds
Buffers == {0, 1000, 2000}
Volumes == {40, 100}
Thresholds == {700, 900}
\* sensor readings: 640 is within every start threshold, 800 only within
\* the start threshold of story_threshold_mm = 900
Distances == {640, 800}
Readings == {None} \cup {Some(d) : d \in Distances}
Threads == {"main", "mqtt"}

\* AccessibilitySettings.safety_limit
safety_limit(limiter) == IF limiter THEN 75 ELSE 100

\* max(0.0, min(1.0, x)) of AudioPlayer, on percent
clamp_unit(x) == IF x < 0 THEN 0 ELSE IF x > 100 THEN 100 ELSE x

\* AudioPlayer.set_volume, line 45
effective_volume(requested, limit) ==
    IF clamp_unit(requested) < limit THEN clamp_unit(requested) ELSE limit

\* _process_distance, lines 438-441: the reading is within start range
in_range(cfg, d) == d <= cfg.story_threshold_mm - cfg.hysteresis_mm

\* a node that never waits
buffer_seconds_none(cfg) == 0

\* _queue_story, line 461: mobility_buffer_ms / 1000.0
buffer_seconds(cfg) == cfg.mobility_buffer_ms \div 1000

\* A settings group of a config payload.  "is" tells whether the key is
\* absent, holds a JSON value that is not an object, or holds an object;
\* "<field>_is" tells whether the field is absent, holds a number, or holds
\* a value that int() / float() reject ("loud", null, a list).
AudioGroup(is, frag, vis, v) ==
    [is |-> is, fragment_file |-> frag, volume_is |-> vis, volume |-> v]
ProximityGroup(is, tis, t) ==
    [is |-> is, story_threshold_mm_is |-> tis, story_threshold_mm |-> t]
AccessibilityGroup(is, bis, b, lim) ==
    [is |-> is, mobility_buffer_ms_is |-> bis, mobility_buffer_ms |-> b,
     safety_limiter |-> lim]

AudioAbsent == AudioGroup("absent", "absent", "absent", 0)
ProximityAbsent == ProximityGroup("absent", "absent", 0)
AccessibilityAbsent == AccessibilityGroup("absent", "absent", 0, "absent")

AudioGroups ==
    {AudioAbsent, AudioGroup("scalar", "absent", "absent", 0),
     AudioGroup("mapping", "missing", "absent", 0),
     AudioGroup("mapping", "missing", "other", 0),
     AudioGroup("mapping", "absent", "other", 0)}
    \cup {AudioGroup("mapping", "absent", "number", v) : v \in Volumes}
ProximityGroups ==
    {ProximityAbsent, ProximityGroup("scalar", "absent", 0),
     ProximityGroup("mapping", "other", 0)}
    \cup {ProximityGroup("mapping", "number", t) : t \in Thresholds}
AccessibilityGroups ==
    {AccessibilityAbsent, AccessibilityGroup("scalar", "absent", 0, "absent"),
     AccessibilityGroup("mapping", "absent", 0, "true"),
     AccessibilityGroup("mapping", "absent", 0, "false"),
     AccessibilityGroup("mapping", "other", 0, "true")}
    \cup {AccessibilityGroup("mapping", "number", b, "absent") : b \in Buffers}

\* A config/<node> payload: text that json.loads rejects, a JSON value
\* that is not an object, or an object with its three groups.
ConfigPayload(kind, a, p, x) ==
    [kind |-> kind, audio |-> a, proximity |-> p, accessibility |-> x]
NoPayload == ConfigPayload("none", AudioAbsent, ProximityAbsent,
                           AccessibilityAbsent)
\* the payloads delivered: the two that are dropped, the empty object,
\* every group alone, and objects with several groups (all well-formed;
\* a well-formed group before a malformed one; a scalar beside a mapping)
ConfigPayloads ==
    {ConfigPayload(k, AudioAbsent, ProximityAbsent, AccessibilityAbsent) :
        k \in {"invalid", "nonobject", "object"}}
    \cup {ConfigPayload("object", a, ProximityAbsent, AccessibilityAbsent) :
            a \in AudioGroups}
    \cup {ConfigPayload("object", AudioAbsent, p, AccessibilityAbsent) :
            p \in ProximityGroups}
    \cup {ConfigPayload("object", AudioAbsent, ProximityAbsent, x) :
            x \in AccessibilityGroups}
    \cup {ConfigPayload("object",
                        AudioGroup("mapping", "absent", "number", 100),
                        ProximityGroup("mapping", "number", 900),
                        AccessibilityGroup("mapping", "absent", 0, "true")),
          ConfigPayload("object",
                        AudioGroup("mapping", "absent", "number", 40),
                        ProximityGroup("mapping", "other", 0),
                        AccessibilityGroup("mapping", "absent", 0, "false")),
          ConfigPayload("object",
                        AudioGroup("scalar", "absent", "absent", 0),
                        ProximityAbsent,
                        AccessibilityGroup("mapping", "number", 0, "absent"))}

\* A state/hub payload: text that json.loads rejects, a JSON value that is
\* not an object, or an object whose "unlocked" is true, false or absent.
StatePayloads == {"invalid", "nonobject", "true", "false", "absent"}

\* the groups _handle_config_message counts as applied, lines 332-342
is_mapping(g) == g.is = "mapping"
applied_groups(data) ==
    (IF is_mapping(data.audio) THEN <<"audio">> ELSE <<>>)
    \o (IF is_mapping(data.proximity) THEN <<"proximity">> ELSE <<>>)
    \o (IF is_mapping(data.accessibility) THEN <<"accessibility">> ELSE <<>>)

\* AudioSettings.update, lines 85-89: fragment_file first, then volume;
\* float() raises on a value that is not a number
audio_update(cfg, g) ==
    LET c1 == IF g.fragment_file = "absent" THEN cfg
              ELSE [cfg EXCEPT !.fragment_exists = (g.fragment_file = "exists")]
    IN IF g.volume_is = "absent" THEN [cfg |-> c1, raised |-> FALSE]
       ELSE IF g.volume_is = "other" THEN [cfg |-> c1, raised |-> TRUE]
       ELSE [cfg |-> [c1 EXCEPT !.volume = g.volume], raised |-> FALSE]

\* ProximitySettings.update, lines 65-68: int() raises likewise
proximity_update(cfg, g) ==
    IF g.story_threshold_mm_is = "absent" THEN [cfg |-> cfg, raised |-> FALSE]
    ELSE IF g.story_threshold_mm_is = "other" THEN [cfg |-> cfg, raised |-> TRUE]
    ELSE [cfg |-> [cfg EXCEPT !.story_threshold_mm = g.story_threshold_mm],
          raised |-> FALSE]

\* A JSON value given for repeat or pace: a number (pace in hundredths),
\* Infinity or NaN (which json.loads accepts), or a value that is no
\* number ("fast", null, a list).
Setting(is, v) == [is |-> is, v |-> v]

\* a clamp of repeat without the upper end
clamp_repeat_open(x) ==
    IF x.is = "number"
    THEN [v |-> IF x.v < 0 THEN 0 ELSE x.v, raised |-> FALSE]
    ELSE IF x.is = "other" THEN [v |-> 0, raised |-> FALSE]
    ELSE [v |-> 0, raised |-> TRUE]

\* AccessibilitySettings._clamp_repeat, lines 132-138: int() of a value
\* that is no number gives 0; int() of Infinity or NaN raises an error
\* that is not caught
clamp_repeat(x) ==
    IF x.is = "number"
    THEN [v |-> IF x.v < 0 THEN 0 ELSE IF x.v > 2 THEN 2 ELSE x.v,
          raised |-> FALSE]
    ELSE IF x.is = "other" THEN [v |-> 0, raised |-> FALSE]
    ELSE [v |-> 0, raised |-> TRUE]

\* AccessibilitySettings._clamp_pace, lines 140-146, in hundredths:
\* min(1.15, nan) is 1.15, as every comparison with NaN is false
clamp_pace(x) ==
    IF x.is = "number"
    THEN IF x.v < 85 THEN 85 ELSE IF x.v > 115 THEN 115 ELSE x.v
    ELSE IF x.is = "other" THEN 100
    ELSE 115

\* AccessibilitySettings.update, lines 116-130: mobility_buffer_ms with
\* max(0, int(...)), then repeat and pace through their clamps, then
\* safety_limiter with bool(...); a group names repeat and pace only when
\* the payload holds them
accessibility_update(cfg, g) ==
    LET c1 == IF g.mobility_buffer_ms_is = "number"
              THEN [cfg EXCEPT !.mobility_buffer_ms =
                        IF g.mobility_buffer_ms < 0 THEN 0
                        ELSE g.mobility_buffer_ms]
              ELSE cfg
        hasRepeat == "repeat" \in DOMAIN g
        r == IF hasRepeat THEN clamp_repeat(g.repeat)
             ELSE [v |-> c1.repeat, raised |-> FALSE]
        c2 == IF r.raised THEN c1 ELSE [c1 EXCEPT !.repeat = r.v]
        c3 == IF "pace" \in DOMAIN g
              THEN [c2 EXCEPT !.pace = clamp_pace(g.pace)]
              ELSE c2
    IN IF g.mobility_buffer_ms_is = "other" THEN [cfg |-> cfg, raised |-> TRUE]
       ELSE IF r.raised THEN [cfg |-> c1, raised |-> TRUE]
       ELSE IF g.safety_limiter = "absent" THEN [cfg |-> c3, raised |-> FALSE]
       ELSE [cfg |-> [c3 EXCEPT !.safety_limiter = (g.safety_limiter = "true")],
             raised |-> FALSE]

\* _handle_config_message, lines 331-340: the groups merged in order, up
\* to the first update that raises; "apply" tells whether line 341 is
\* reached
merge_config(cfg, data) ==
    LET a == IF is_mapping(data.audio) THEN audio_update(cfg, data.audio)
             ELSE [cfg |-> cfg, raised |-> FALSE]
        p == IF a.raised THEN a
             ELSE IF is_mapping(data.proximity)
                  THEN proximity_update(a.cfg, data.proximity)
                  ELSE a
        x == IF p.raised THEN p
             ELSE IF is_mapping(data.accessibility)
                  THEN accessibility_update(p.cfg, data.accessibility)
                  ELSE p
    IN [cfg |-> x.cfg, raised |-> x.raised,
        apply |-> ~x.raised /\ is_mapping(data.accessibility)]

\* the thread is in no handler and no tick
ThreadIdle == [pc |-> "idle", site |-> "none", now |-> 0, data |-> NoPayload,
               state |-> "none", limit |-> 0, vol |-> 0, eff |-> 0]

\* the dataclass defaults of the settings read here, before the
\* configuration file is loaded
DefaultConfig ==
    [role |-> "whisper", fragment_exists |-> FALSE, volume |-> 70,
     story_threshold_mm |-> 700, hysteresis_mm |-> 50,
     mobility_buffer_ms |-> 800, repeat |-> 0, pace |-> 100,
     safety_limiter |-> TRUE]

\* NodeService.__init__, lines 215-221
StoryInit ==
    [last_heartbeat_ts |-> 0, last_trigger_ts |-> 0, cooldown_until |-> 0,
     pending_story_at |-> None,
     story_active |-> FALSE, story_reset_time |-> 0,
     mystery_played |-> FALSE]

NodeObsInit ==
    [run_start |-> None, queued_buffer |-> 0, last_trigger |-> None,
     prev_trigger |-> None, last_beat |-> None, run_starts |-> 0,
     dropped |-> FALSE,
     configIn |-> 0, stateIn |-> 0]

NodeInit ==
    /\ nodePc = "off"
    /\ config = DefaultConfig
    /\ story = StoryInit
    /\ audio = [safety_limit |-> 100, mixer_volume |-> 100]
    /\ thr = [th \in Threads |-> ThreadIdle]
    /\ clock = 0
    /\ outbox = <<>>
    /\ nodeObs = NodeObsInit

\* ------------------------------------------- logger: values and messages
Days == 0..MaxDay
Header == [kind |-> "header", date |-> 0]
Row(d) == [kind |-> "row", date |-> d]
NoFile == [exists |-> FALSE, lines |-> <<>>]

\* CsvEventLogger.__init__, lines 24-27
LoggerInit == [current_date |-> None, writer |-> None]

\* The threads that call record_event on the hub's one CsvEventLogger: the
\* network thread (ingest rows) and an HTTP thread (push and reset rows).
Callers == {"net", "http"}
CallIdle == [pc |-> "idle", date |-> 0, file_exists |-> FALSE]

\* The logger as shared by the callers.  A file object is a record
\* [date, closed, buf]: the file it appends to, whether it was closed, and
\* the lines written to it that are not flushed yet; file_obj and writer
\* are indices into objs, 0 for None.
EventLoggerInit ==
    [current_date |-> None, file_obj |-> 0, writer |-> 0, objs |-> <<>>,
     call |-> [c \in Callers |-> CallIdle],
     due |-> [d \in Days |-> 0], started |-> 0, raised |-> 0,
     overlap |-> FALSE]

CsvInit ==
    /\ event_logger = EventLoggerInit
    /\ utc_date = 0
    /\ logs_dir = [d \in Days |-> NoFile]
    /\ logger = LoggerInit
    /\ csvObs = [calls |-> 0, restarts |-> 0]

\* ------------------------------------------------- dashboard, its values

\* The strings a Basic Authorization header can carry.  "admin" and "secret"
\* are the configured pair; "se~nor" and "contrase~na" stand for strings
\* with a character outside ASCII (werkzeug decodes the header as UTF-8).
Usernames == {"admin", "guest", "se~nor"}
Passwords == {"secret", "letmein", "contrase~na"}
NonAscii == {"se~nor", "contrase~na"}

\* request.authorization: None without a (well-formed Basic) header
AuthHeaders ==
    {None} \cup {Some([username |-> u, password |-> p]) :
                    u \in Usernames, p \in Passwords}

\* the routes registered by create_app, by the decorators they carry
OpenRoutes == {"/health", "/transcripts"}
ProtectedRoutes ==
    {"/", "/nodes", "/accessibility", "/calibration", "/content",
     "/analytics", "/api/health", "/api/state", "/api/reset-state",
     "/api/push-config", "/api/apply-preset", "/api/accessibility/override",
     "/api/select-pack", "/api/export-csv", "/api/analytics/summary",
     "/logout"}
Routes == OpenRoutes \cup ProtectedRoutes

Realm == <<"Basic realm=EchoTrace">>

NoResponse ==
    [route |-> "", status |-> 0, www_authenticate |-> None, ran |-> FALSE,
     body |-> None]

\* before create_app: no app, no context
DashInit ==
    dash = [pc |-> "none", credentials |-> None,
            triggered_whispers |-> {}, unlocked |-> FALSE,
            resp |-> NoResponse]

\* ----------------------------------------- accessibility store, its values

\* What a profile field can hold after yaml.safe_load or request.get_json.
\* Finite numbers are kept in hundredths (n = 130 is 1.3, n = 7000000 is
\* 70000); "huge" is an int beyond the range of float.
Value(kind, s, n) == [kind |-> kind, s |-> s, n |-> n]
Absent == Value("absent", "", 0)
Null == Value("null", "", 0)
Str(s) == Value("str", s, 0)
Num(n) == Value("num", "", n)
Inf == Value("inf", "", 0)
NaN == Value("nan", "", 0)
Huge == Value("huge", "", 0)

Strings == {"", "loud", "2", "0.9", "null"}
Numbers == {-500, 50, 100, 130, 300, 7000000}
Values ==
    {Null, Inf, NaN, Huge} \cup {Str(x) : x \in Strings}
        \cup {Num(x) : x \in Numbers}

\* one node's override mapping: the four numeric keys of the runtime schema
Override(buffer, repeat, pace, volume) ==
    [mobility_buffer_ms |-> buffer, repeat |-> repeat, pace |-> pace,
     volume |-> volume]
NoOverride == Override(Absent, Absent, Absent, Absent)

\* the "global" mapping; a profiles entry is None when the key is missing
\* or holds something that is not a mapping
Global(buffer, sensory, quiet) ==
    [mobility_buffer_ms |-> buffer, sensory_friendly |-> sensory,
     quiet_hours |-> quiet]

\* the profiles load_profiles returns when the file does not exist
DefaultProfiles ==
    [global |-> Some(Global(Absent, FALSE, FALSE)),
     per_node_overrides |-> [n \in Nodes |-> None]]

NoStoreCall == [op |-> "none", node |-> 0, args |-> NoOverride, pre |-> None]

StoreInit ==
    store = [pc |-> "none", profiles |-> DefaultProfiles, file |-> None,
             out |-> None, last |-> NoStoreCall, calls |-> 0]

\* --------------------------------------------- content manager, its values

Languages == {"en", "es"}

\* the audio path recorded for a (node, language) pair
AudioPath(n, l) == [node |-> n, lang |-> l]
AudioPaths == {AudioPath(n, l) : n \in Nodes, l \in Languages}

\* ContentPack: nodes maps a declared node to its default_language, media
\* maps a (node, language) pair to its MediaAsset
NoPack ==
    [nodes |-> [n \in Nodes |-> None],
     media |-> [n \in Nodes |-> [l \in Languages |-> None]]]

ContentInit ==
    content = [pc |-> "none", pack |-> NoPack, files |-> {},
               node |-> 0, language |-> "", out |-> None]

\* ------------------------------------------------- summarizer, its values

\* the event column: the three kinds counted, and any other text
EventKinds ==
    {"fragment_triggered", "heartbeat_received", "narrative_unlocked",
     "admin_action"}

\* the timestamp column: text fromisoformat rejects, a timestamp without
\* UTC offset, a timestamp with one
TimestampKinds == {"unparseable", "naive", "aware"}

\* a row as csv.DictReader yields it
LogRows ==
    [event : EventKinds, node_id : Nodes, timestamp : TimestampKinds]

AnalyticsInit ==
    analytics = [pc |-> "writing", rows |-> <<>>, out |-> None]

\* ---------------------------------------------- hub runtime state, values

\* What arrives on health/<node>.  kind: bytes that are not UTF-8, the
\* empty payload, text that is not JSON, JSON that is not an object, or an
\* object; for an object, ts_is tells whether "ts" is missing, a number
\* datetime.fromtimestamp accepts, a number it rejects (1e20, NaN), or
\* something that is not a number.
HealthPayload(kind, ts_is, ts) == [kind |-> kind, ts_is |-> ts_is, ts |-> ts]
HealthPayloads ==
    {HealthPayload(k, "absent", 0) :
        k \in {"undecodable", "empty", "invalid", "nonobject"}}
    \cup {HealthPayload("object", i, 0) :
            i \in {"absent", "out_of_range", "other"}}
    \cup {HealthPayload("object", "number", t) : t \in 0..MaxWall}

RuntimeInit ==
    runtime = [last_seen |-> [n \in Nodes |-> None], wall |-> 0,
               healthIn |-> 0]

\* The broker delivers the messages of a topic in the order of their
\* publication, after any delay.  cfg: per node, the pushes (by their
\* Event) whose config message is on its way to the node; acks: per node,
\* the acks on their way to the hub, each with the push it answers; src:
\* the push answered by the ack dispatched last; merged: the pushes whose
\* payload their node has merged.  subscribed: the mystery node has
\* subscribed to state/hub; state: the state/hub messages on their way to
\* it; trig: the number of its trigger messages on their way to the hub.
WireInit ==
    wire = [cfg |-> [n \in Nodes |-> <<>>], acks |-> [n \in Nodes |-> <<>>],
            src |-> 0, merged |-> {}, subscribed |-> FALSE, state |-> <<>>,
            trig |-> 0]

\* ------------------------------------------------------------------- Init

NarrativeInit ==
    /\ required_fragments \in 1..MaxRequired
    /\ triggered_whispers = {}
    /\ unlocked = FALSE

ObsInit ==
    /\ passed = {}
    /\ lastCall = NoCall
    /\ rises = 0
    /\ calls = 0

HubInit ==
    /\ hubPc = "created"
    /\ conn = "none"
    /\ subscriptions = {}
    /\ net = NetIdle
    /\ http = [t \in Http |-> HttpIdle]
    /\ ack_events = [n \in Nodes |-> 0]
    /\ evSet = {}
    /\ ack_lock = Free
    /\ log = <<>>
    /\ retained = <<>>
    /\ triggersIn = 0
    /\ acksIn = 0
    /\ resets = 0
    /\ pushes = 0
    /\ pubFailed = FALSE
    /\ everRaced = FALSE

Init ==
    /\ NarrativeInit /\ ObsInit /\ HubInit /\ NodeInit /\ CsvInit
    /\ DashInit /\ StoreInit /\ ContentInit /\ AnalyticsInit /\ RuntimeInit
    /\ WireInit

\* ------------------------------------- calls on a NarrativeState object

CallRegisterTrigger(n) ==
    /\ calls < MaxCalls
    /\ LET r == register_trigger(unlocked, triggered_whispers, required_fragments, n)
       IN /\ triggered_whispers' = r.triggered
          /\ unlocked' = r.unlocked
          /\ lastCall' = [op |-> "register_trigger", node |-> n, ret |-> r.ret,
                          pre_triggered |-> triggered_whispers,
                          pre_unlocked |-> unlocked]
          /\ rises' = IF ~unlocked /\ r.unlocked THEN rises + 1 ELSE rises
    /\ passed' = passed \cup {n}
    /\ calls' = calls + 1
    /\ UNCHANGED <<required_fragments, hubPc, conn, subscriptions, net,
                   http, ack_events, evSet, ack_lock, log, retained,
                   triggersIn, acksIn, resets, pushes, pubFailed, everRaced,
                   nodeVars, csvVars, dashVars, storeVars, contentVars,
                   analyticsVars, runtimeVars, wireVars>>

CallReset ==
    /\ calls < MaxCalls
    /\ LET r == reset(unlocked, triggered_whispers)
       IN /\ triggered_whispers' = r.triggered
          /\ unlocked' = r.unlocked
    /\ lastCall' = [op |-> "reset", node |-> 0, ret |-> FALSE,
                    pre_triggered |-> triggered_whispers,
                    pre_unlocked |-> unlocked]
    /\ passed' = {}
    /\ rises' = 0
    /\ calls' = calls + 1
    /\ UNCHANGED <<required_fragments, hubPc, conn, subscriptions, net,
                   http, ack_events, evSet, ack_lock, log, retained,
                   triggersIn, acksIn, resets, pushes, pubFailed, everRaced,
                   nodeVars, csvVars, dashVars, storeVars, contentVars,
                   analyticsVars, runtimeVars, wireVars>>

NextNarrative ==
    \/ \E n \in Nodes : CallRegisterTrigger(n)
    \/ CallReset

SpecNarrative == Init /\ [][NextNarrative]_vars


\* ---------------------------------------------- HubListener.start, _on_connect

\* start(): client.connect and loop_start; nothing is published
Start ==
    /\ hubPc = "created"
    /\ hubPc' = "started"
    /\ UNCHANGED <<narrVars, obsVars, conn, subscriptions, net, http,
                   ack_events, evSet, ack_lock, log, retained, triggersIn,
                   acksIn, resets, pushes, pubFailed, everRaced, nodeVars,
                   csvVars, dashVars, storeVars, contentVars, analyticsVars,
                   runtimeVars, wireVars>>

\* _on_connect on the network thread, with the broker's return code
OnConnect(rc) ==
    /\ hubPc = "started"
    /\ net.pc = "idle"
    /\ conn # "ok"
    /\ IF rc # 0
       THEN UNCHANGED <<conn, subscriptions>>
       ELSE conn' = "ok" /\ subscriptions' = on_connect_subscriptions
    /\ UNCHANGED <<narrVars, obsVars, hubPc, net, http, ack_events, evSet,
                   ack_lock, log, retained, triggersIn, acksIn, resets,
                   pushes, pubFailed, everRaced, nodeVars, csvVars,
                   dashVars, storeVars, contentVars, analyticsVars,
                   runtimeVars, wireVars>>

\* ------------------------------------------------------------ publish_state
\* publish_state runs on the caller's thread; l is that thread's locals.

\* line 159, snapshot(): the dict literal reads self.unlocked first ...
publish_read_unlocked(l) == [l EXCEPT !.snapU = unlocked]

\* ... and then sorted(self.triggered_whispers)
publish_read_triggered(l) ==
    [l EXCEPT !.payload =
        <<[unlocked |-> l.snapU,
           triggered |-> triggered_list(triggered_whispers)]>>]

\* line 160: client.publish(hub_state_topic(), payload, qos=1, retain=True)
publish_send(l) ==
    [l EXCEPT !.pub = <<hub_state_message(l.payload[1])>>,
              !.pubs = l.pubs + 1]

\* ------------------------------------------- _on_message -> _handle_trigger

\* dispatch on the trigger prefix, parse, first record_event and the read of
\* unlocked_before (lines 219-228).  Only this thread raises unlocked and no
\* other step of the hub both writes the log and the narrative state, so
\* taking the row and the read in one step loses no interleaving.
OnTrigger(n, p) ==
    /\ net.pc = "idle"
    /\ "trigger" \in subscriptions
    /\ triggersIn < MaxTriggers
    /\ triggersIn' = triggersIn + 1
    /\ IF json_decode_error(p)
       THEN /\ log' = record_event(log, "fragment_triggered", n, "invalid_json")
            /\ UNCHANGED <<net, http, everRaced>>
       ELSE /\ log' = record_event(log, "fragment_triggered", n, "json")
            /\ net' = [NetIdle EXCEPT !.pc = "t_add", !.node = n,
                                      !.before = unlocked,
                                      !.raced = ResetInProgress]
            /\ http' = [t \in Http |->
                          IF http[t].pc \in ResetPcs
                          THEN [http[t] EXCEPT !.raced = TRUE] ELSE http[t]]
            /\ everRaced' = (everRaced \/ ResetInProgress)
    /\ UNCHANGED <<narrVars, obsVars, hubPc, conn, subscriptions,
                   ack_events, evSet, ack_lock, retained, acksIn, resets,
                   pushes, pubFailed, nodeVars, csvVars, dashVars,
                   storeVars, contentVars, analyticsVars, runtimeVars,
                   wireVars>>

\* register_trigger lines 23-25: the membership test and the add.  The only
\* write from another thread is reset()'s clear(), and a clear() between
\* the test and the add leaves what a clear() before the test leaves.
TrigAdd ==
    /\ net.pc = "t_add"
    /\ IF net.node \in triggered_whispers
       THEN /\ net' = [net EXCEPT !.pc = "t_snapU", !.is_new = FALSE,
                                  !.regDone = TRUE]
            /\ UNCHANGED triggered_whispers
       ELSE /\ net' = [net EXCEPT !.pc = "t_cond"]
            /\ triggered_whispers' = triggered_whispers \cup {net.node}
    /\ UNCHANGED <<required_fragments, unlocked, obsVars, hubPc, conn,
                   subscriptions, http, ack_events, evSet, ack_lock, log,
                   retained, triggersIn, acksIn, resets, pushes, pubFailed,
                   everRaced, nodeVars, csvVars, dashVars, storeVars,
                   contentVars, analyticsVars, runtimeVars, wireVars>>

\* register_trigger line 26: the unlock condition
TrigCond ==
    /\ net.pc = "t_cond"
    /\ net' = IF unlock_condition(unlocked, triggered_whispers, required_fragments)
              THEN [net EXCEPT !.pc = "t_set"]
              ELSE [net EXCEPT !.pc = "t_snapU", !.is_new = TRUE,
                               !.regDone = TRUE]
    /\ UNCHANGED <<narrVars, obsVars, hubPc, conn, subscriptions, http,
                   ack_events, evSet, ack_lock, log, retained, triggersIn,
                   acksIn, resets, pushes, pubFailed, everRaced, nodeVars,
                   csvVars, dashVars, storeVars, contentVars, analyticsVars,
                   runtimeVars, wireVars>>

\* register_trigger lines 27-28: self.unlocked = True; return True
TrigSet ==
    /\ net.pc = "t_set"
    /\ unlocked' = TRUE
    /\ net' = [net EXCEPT !.pc = "t_snapU", !.is_new = TRUE, !.rose = TRUE,
                          !.regDone = TRUE]
    /\ UNCHANGED <<required_fragments, triggered_whispers, obsVars, hubPc,
                   conn, subscriptions, http, ack_events, evSet, ack_lock,
                   log, retained, triggersIn, acksIn, resets, pushes,
                   pubFailed, everRaced, nodeVars, csvVars, dashVars,
                   storeVars, contentVars, analyticsVars, runtimeVars,
                   wireVars>>

\* line 233, publish_state: snapshot reads
TrigSnapU ==
    /\ net.pc = "t_snapU"
    /\ net' = [publish_read_unlocked(net) EXCEPT !.pc = "t_snapT"]
    /\ UNCHANGED <<narrVars, obsVars, hubPc, conn, subscriptions, http,
                   ack_events, evSet, ack_lock, log, retained, triggersIn,
                   acksIn, resets, pushes, pubFailed, everRaced, nodeVars,
                   csvVars, dashVars, storeVars, contentVars, analyticsVars,
                   runtimeVars, wireVars>>

TrigSnapT ==
    /\ net.pc = "t_snapT"
    /\ net' = [publish_read_triggered(net) EXCEPT !.pc = "t_pub"]
    /\ UNCHANGED <<narrVars, obsVars, hubPc, conn, subscriptions, http,
                   ack_events, evSet, ack_lock, log, retained, triggersIn,
                   acksIn, resets, pushes, pubFailed, everRaced, nodeVars,
                   csvVars, dashVars, storeVars, contentVars, analyticsVars,
                   runtimeVars, wireVars>>

\* line 233, publish_state: client.publish with the broker's answer rc
TrigPublish(rc) ==
    /\ net.pc = "t_pub"
    /\ LET l == publish_send(net)
       IN /\ net' = [l EXCEPT !.pc = "t_after", !.pubAfterReg = net.regDone]
          /\ retained' = broker_retain(retained, l.pub[1], rc)
          /\ wire' = broker_deliver(wire, l.pub[1], rc)
    /\ pubFailed' = (pubFailed \/ rc # 0)
    /\ UNCHANGED <<narrVars, obsVars, hubPc, conn, subscriptions, http,
                   ack_events, evSet, ack_lock, log, triggersIn, acksIn,
                   resets, pushes, everRaced, nodeVars, csvVars, dashVars,
                   storeVars, contentVars, analyticsVars, runtimeVars>>

\* lines 234-235: unlocked_after and the rising-edge test
TrigAfter ==
    /\ net.pc = "t_after"
    /\ net' = IF unlocked /\ ~net.before
              THEN [net EXCEPT !.pc = "t_logunlock"]
              ELSE NetIdle
    /\ UNCHANGED <<narrVars, obsVars, hubPc, conn, subscriptions, http,
                   ack_events, evSet, ack_lock, log, retained, triggersIn,
                   acksIn, resets, pushes, pubFailed, everRaced, nodeVars,
                   csvVars, dashVars, storeVars, contentVars, analyticsVars,
                   runtimeVars, wireVars>>

\* lines 236-240: record_event("narrative_unlocked", ...)
TrigLogUnlock ==
    /\ net.pc = "t_logunlock"
    /\ log' = record_event(log, "narrative_unlocked", net.node, "unlock")
    /\ net' = NetIdle
    /\ UNCHANGED <<narrVars, obsVars, hubPc, conn, subscriptions, http,
                   ack_events, evSet, ack_lock, retained, triggersIn,
                   acksIn, resets, pushes, pubFailed, everRaced, nodeVars,
                   csvVars, dashVars, storeVars, contentVars, analyticsVars,
                   runtimeVars, wireVars>>

\* ----------------------------------------------- _on_message -> _handle_ack

\* an ack handler that records no config_ack row
OnAck_no_row(n) ==
    /\ net.pc = "idle"
    /\ "ack" \in subscriptions
    /\ acksIn < MaxAcks
    /\ acksIn' = acksIn + 1
    /\ net' = [NetIdle EXCEPT !.pc = "a_pop", !.node = n]
    /\ UNCHANGED <<narrVars, obsVars, hubPc, conn, subscriptions, http,
                   ack_events, evSet, ack_lock, log, retained, triggersIn,
                   resets, pushes, pubFailed, everRaced, nodeVars, csvVars,
                   dashVars, storeVars, contentVars, analyticsVars,
                   runtimeVars, wireVars>>

\* dispatch on the ack prefix and line 244: record_event("config_ack", ...)
OnAck(n) ==
    /\ net.pc = "idle"
    /\ "ack" \in subscriptions
    /\ acksIn < MaxAcks
    /\ acksIn' = acksIn + 1
    /\ log' = record_event(log, "config_ack", n, "payload")
    /\ net' = [NetIdle EXCEPT !.pc = "a_pop", !.node = n]
    /\ UNCHANGED <<narrVars, obsVars, hubPc, conn, subscriptions, http,
                   ack_events, evSet, ack_lock, retained, triggersIn,
                   resets, pushes, pubFailed, everRaced, nodeVars, csvVars,
                   dashVars, storeVars, contentVars, analyticsVars,
                   runtimeVars, wireVars>>

\* line 245: with self._ack_lock, the lock is acquired once it is free
AckLock ==
    /\ net.pc = "a_pop"
    /\ ack_lock = Free
    /\ ack_lock' = NetThread
    /\ UNCHANGED <<narrVars, obsVars, hubPc, conn, subscriptions, net, http,
                   ack_events, evSet, log, retained, triggersIn, acksIn,
                   resets, pushes, pubFailed, everRaced, nodeVars, csvVars,
                   dashVars, storeVars, contentVars, analyticsVars,
                   runtimeVars, wireVars>>

\* an ack handler that keeps the lock after the pop
AckPop_hold ==
    /\ net.pc = "a_pop"
    /\ ack_lock = NetThread
    /\ net' = [net EXCEPT !.pc = "a_set", !.ev = ack_events[net.node]]
    /\ ack_events' = ack_pop(ack_events, net.node)
    /\ UNCHANGED <<narrVars, obsVars, hubPc, conn, subscriptions, http,
                   evSet, ack_lock, log, retained, triggersIn, acksIn,
                   resets, pushes, pubFailed, everRaced, nodeVars, csvVars,
                   dashVars, storeVars, contentVars, analyticsVars,
                   runtimeVars, wireVars>>

\* lines 245-246: event = self._ack_events.pop(node_id, None) under the
\* lock, which is released at the end of the block
AckPop ==
    /\ net.pc = "a_pop"
    /\ ack_lock = NetThread
    /\ ack_lock' = Free
    /\ net' = [net EXCEPT !.pc = "a_set", !.ev = ack_events[net.node],
                 !.window = {http[t].ev : t \in
                               {u \in Http : /\ http[u].pc \in WaitingPcs
                                             /\ http[u].node = net.node}}]
    /\ ack_events' = ack_pop(ack_events, net.node)
    /\ UNCHANGED <<narrVars, obsVars, hubPc, conn, subscriptions, http,
                   evSet, log, retained, triggersIn, acksIn, resets, pushes,
                   pubFailed, everRaced, nodeVars, csvVars, dashVars,
                   storeVars, contentVars, analyticsVars, runtimeVars,
                   wireVars>>

\* an ack handler that drops the popped Event without setting it
AckSet_no_set ==
    /\ net.pc = "a_set"
    /\ http' = [t \in Http |->
                  IF http[t].pc \in WaitingPcs /\ http[t].ev \in net.window
                  THEN [http[t] EXCEPT !.ackSeen = TRUE] ELSE http[t]]
    /\ net' = NetIdle
    /\ UNCHANGED <<narrVars, obsVars, hubPc, conn, subscriptions,
                   ack_events, evSet, ack_lock, log, retained, triggersIn,
                   acksIn, resets, pushes, pubFailed, everRaced, nodeVars,
                   csvVars, dashVars, storeVars, contentVars, analyticsVars,
                   runtimeVars, wireVars>>

\* lines 247-250: event.set(), or the warning about an unexpected ack
AckSet ==
    /\ net.pc = "a_set"
    /\ evSet' = IF net.ev # 0 /\ (\E t \in Http : http[t].ev = net.ev)
                THEN evSet \cup {net.ev} ELSE evSet
    /\ http' = [t \in Http |->
                  IF http[t].pc \in WaitingPcs /\ http[t].ev \in net.window
                  THEN [http[t] EXCEPT !.ackSeen = TRUE] ELSE http[t]]
    /\ net' = NetIdle
    /\ UNCHANGED <<narrVars, obsVars, hubPc, conn, subscriptions,
                   ack_events, ack_lock, log, retained, triggersIn, acksIn,
                   resets, pushes, pubFailed, everRaced, nodeVars, csvVars,
                   dashVars, storeVars, contentVars, analyticsVars,
                   runtimeVars, wireVars>>

\* ------------------------------------------------- HubListener.reset_state

\* line 145 -> NarrativeState.reset line 32: self.triggered_whispers.clear()
ResetClear(t) ==
    /\ hubPc = "started"
    /\ http[t].pc = "idle"
    /\ resets < MaxResets
    /\ resets' = resets + 1
    /\ triggered_whispers' = {}
    /\ http' = [http EXCEPT ![t] =
                  [HttpIdle EXCEPT !.pc = "r_unl", !.raced = TrigInProgress]]
    /\ net' = IF TrigInProgress THEN [net EXCEPT !.raced = TRUE] ELSE net
    /\ everRaced' = (everRaced \/ TrigInProgress)
    /\ UNCHANGED <<required_fragments, unlocked, obsVars, hubPc, conn,
                   subscriptions, ack_events, evSet, ack_lock, log,
                   retained, triggersIn, acksIn, pushes, pubFailed,
                   nodeVars, csvVars, dashVars, storeVars, contentVars,
                   analyticsVars, runtimeVars, wireVars>>

\* NarrativeState.reset line 33: self.unlocked = False
ResetUnlocked(t) ==
    /\ http[t].pc = "r_unl"
    /\ unlocked' = FALSE
    /\ http' = [http EXCEPT ![t].pc = "r_snapU"]
    /\ UNCHANGED <<required_fragments, triggered_whispers, obsVars, hubPc,
                   conn, subscriptions, net, ack_events, evSet, ack_lock,
                   log, retained, triggersIn, acksIn, resets, pushes,
                   pubFailed, everRaced, nodeVars, csvVars, dashVars,
                   storeVars, contentVars, analyticsVars, runtimeVars,
                   wireVars>>

\* line 146, publish_state: snapshot reads
ResetSnapU(t) ==
    /\ http[t].pc = "r_snapU"
    /\ http' = [http EXCEPT ![t] =
                  [publish_read_unlocked(http[t]) EXCEPT !.pc = "r_snapT"]]
    /\ UNCHANGED <<narrVars, obsVars, hubPc, conn, subscriptions, net,
                   ack_events, evSet, ack_lock, log, retained, triggersIn,
                   acksIn, resets, pushes, pubFailed, everRaced, nodeVars,
                   csvVars, dashVars, storeVars, contentVars, analyticsVars,
                   runtimeVars, wireVars>>

ResetSnapT(t) ==
    /\ http[t].pc = "r_snapT"
    /\ http' = [http EXCEPT ![t] =
                  [publish_read_triggered(http[t]) EXCEPT !.pc = "r_pub"]]
    /\ UNCHANGED <<narrVars, obsVars, hubPc, conn, subscriptions, net,
                   ack_events, evSet, ack_lock, log, retained, triggersIn,
                   acksIn, resets, pushes, pubFailed, everRaced, nodeVars,
                   csvVars, dashVars, storeVars, contentVars, analyticsVars,
                   runtimeVars, wireVars>>

\* line 146, publish_state: client.publish with the broker's answer rc
ResetPublish(t, rc) ==
    /\ http[t].pc = "r_pub"
    /\ LET l == publish_send(http[t])
       IN /\ http' = [http EXCEPT ![t] = [l EXCEPT !.pc = "r_log"]]
          /\ retained' = broker_retain(retained, l.pub[1], rc)
          /\ wire' = broker_deliver(wire, l.pub[1], rc)
    /\ pubFailed' = (pubFailed \/ rc # 0)
    /\ UNCHANGED <<narrVars, obsVars, hubPc, conn, subscriptions, net,
                   ack_events, evSet, ack_lock, log, triggersIn, acksIn,
                   resets, pushes, everRaced, nodeVars, csvVars, dashVars,
                   storeVars, contentVars, analyticsVars, runtimeVars>>

\* line 147: record_event("admin_action", "hub", "Narrative state reset")
ResetLog(t) ==
    /\ http[t].pc = "r_log"
    /\ log' = record_event(log, "admin_action", 0, "reset")
    /\ http' = [http EXCEPT ![t] = HttpIdle]
    /\ UNCHANGED <<narrVars, obsVars, hubPc, conn, subscriptions, net,
                   ack_events, evSet, ack_lock, retained, triggersIn,
                   acksIn, resets, pushes, pubFailed, everRaced, nodeVars,
                   csvVars, dashVars, storeVars, contentVars, analyticsVars,
                   runtimeVars, wireVars>>

\* ---------------------------------------------- HubListener.push_node_config

\* lines 110-120: the call, its payload check, json.dumps and the Event
PushCall(t, n) ==
    /\ hubPc = "started"
    /\ http[t].pc = "idle"
    /\ pushes + Cardinality({u \in Http : http[u].pc = "p_reg"}) < MaxPushes
    /\ http' = [http EXCEPT ![t] = [HttpIdle EXCEPT !.pc = "p_reg",
                                                    !.node = n]]
    /\ UNCHANGED <<narrVars, obsVars, hubPc, conn, subscriptions, net,
                   ack_events, evSet, ack_lock, log, retained, triggersIn,
                   acksIn, resets, pushes, pubFailed, everRaced, nodeVars,
                   csvVars, dashVars, storeVars, contentVars, analyticsVars,
                   runtimeVars, wireVars>>

\* lines 121, 128 and 139: with self._ack_lock, the lock is acquired once
\* it is free
PushLock(t) ==
    /\ http[t].pc \in PushLockPcs
    /\ ack_lock = Free
    /\ ack_lock' = HttpThread(t)
    /\ UNCHANGED <<narrVars, obsVars, hubPc, conn, subscriptions, net, http,
                   ack_events, evSet, log, retained, triggersIn, acksIn,
                   resets, pushes, pubFailed, everRaced, nodeVars, csvVars,
                   dashVars, storeVars, contentVars, analyticsVars,
                   runtimeVars, wireVars>>

\* lines 121-123: the Event stored in _ack_events[node_id] under the lock,
\* which is released at the end of the block
PushRegister(t) ==
    /\ http[t].pc = "p_reg"
    /\ ack_lock = HttpThread(t)
    /\ ack_lock' = Free
    /\ pushes' = pushes + 1
    /\ LET n == http[t].node
           others == {u \in Http \ {t} :
                        http[u].pc \in PushPcs /\ http[u].node = n}
           first  == {u \in Http \ {t} :
                        /\ http[u].pc \in WaitingPcs
                        /\ http[u].node = n
                        /\ ack_events[n] = http[u].ev}
       IN /\ ack_events' = [ack_events EXCEPT ![n] = pushes + 1]
          /\ http' = [u \in Http |->
                        IF u = t
                        THEN [HttpIdle EXCEPT !.pc = "p_pub",
                                              !.node = n, !.ev = pushes + 1,
                                              !.solo = (others = {}),
                                              !.preempts = (first # {})]
                        ELSE IF u \in others
                        THEN [http[u] EXCEPT !.solo = FALSE,
                                             !.replaced = (@ \/ u \in first)]
                        ELSE http[u]]
    /\ UNCHANGED <<narrVars, obsVars, hubPc, conn, subscriptions, net,
                   evSet, log, retained, triggersIn, acksIn, resets,
                   pubFailed, everRaced, nodeVars, csvVars, dashVars,
                   storeVars, contentVars, analyticsVars, runtimeVars,
                   wireVars>>

\* lines 125-126: client.publish(config topic) and the test of info.rc
PushPublish(t, rc) ==
    /\ http[t].pc = "p_pub"
    /\ http' = IF rc # 0
               THEN [http EXCEPT ![t].pc = "p_popfail"]
               ELSE [http EXCEPT ![t].pc = "p_wait", ![t].published = TRUE]
    /\ UNCHANGED <<narrVars, obsVars, hubPc, conn, subscriptions, net,
                   ack_events, evSet, ack_lock, log, retained, triggersIn,
                   acksIn, resets, pushes, pubFailed, everRaced, nodeVars,
                   csvVars, dashVars, storeVars, contentVars, analyticsVars,
                   runtimeVars, wireVars>>

\* lines 128-130: the waiter of node_id is popped, return False
PushPopFail(t) ==
    /\ http[t].pc = "p_popfail"
    /\ ack_lock = HttpThread(t)
    /\ ack_lock' = Free
    /\ ack_events' = ack_pop(ack_events, http[t].node)
    /\ http' = [http EXCEPT ![t] = [HttpIdle EXCEPT !.result = FALSE]]
    /\ evSet' = evSet \ {http[t].ev}
    /\ UNCHANGED <<narrVars, obsVars, hubPc, conn, subscriptions, net, log,
                   retained, triggersIn, acksIn, resets, pushes, pubFailed,
                   everRaced, nodeVars, csvVars, dashVars, storeVars,
                   contentVars, analyticsVars, runtimeVars, wireVars>>

\* line 133: ack_event.wait(timeout) returns True, the flag is set
PushWaitSet(t) ==
    /\ http[t].pc = "p_wait"
    /\ http[t].ev \in evSet
    /\ http' = [http EXCEPT ![t].pc = "p_logok"]
    /\ UNCHANGED <<narrVars, obsVars, hubPc, conn, subscriptions, net,
                   ack_events, evSet, ack_lock, log, retained, triggersIn,
                   acksIn, resets, pushes, pubFailed, everRaced, nodeVars,
                   csvVars, dashVars, storeVars, contentVars, analyticsVars,
                   runtimeVars, wireVars>>

\* a wait without timeout: it returns only once the flag is set
PushWaitForever(t) ==
    /\ http[t].pc = "p_wait"
    /\ http[t].ev \in evSet
    /\ http' = [http EXCEPT ![t].pc = "p_logok"]
    /\ UNCHANGED <<narrVars, obsVars, hubPc, conn, subscriptions, net,
                   ack_events, evSet, ack_lock, log, retained, triggersIn,
                   acksIn, resets, pushes, pubFailed, everRaced, nodeVars,
                   csvVars, dashVars, storeVars, contentVars, analyticsVars,
                   runtimeVars, wireVars>>

\* line 133: ack_event.wait(timeout) returns False, the timeout expired
PushWaitTimeout(t) ==
    /\ http[t].pc = "p_wait"
    /\ http[t].ev \notin evSet
    /\ http' = [http EXCEPT ![t].pc = "p_logto"]
    /\ UNCHANGED <<narrVars, obsVars, hubPc, conn, subscriptions, net,
                   ack_events, evSet, ack_lock, log, retained, triggersIn,
                   acksIn, resets, pushes, pubFailed, everRaced, nodeVars,
                   csvVars, dashVars, storeVars, contentVars, analyticsVars,
                   runtimeVars, wireVars>>

\* lines 134-135: record_event("config_push_ok", ...); return True
PushLogOk(t) ==
    /\ http[t].pc = "p_logok"
    /\ log' = record_event(log, "config_push_ok", http[t].node, "message")
    /\ http' = [http EXCEPT ![t] = [HttpIdle EXCEPT !.result = TRUE]]
    /\ evSet' = evSet \ {http[t].ev}
    /\ UNCHANGED <<narrVars, obsVars, hubPc, conn, subscriptions, net,
                   ack_events, ack_lock, retained, triggersIn, acksIn,
                   resets, pushes, pubFailed, everRaced, nodeVars, csvVars,
                   dashVars, storeVars, contentVars, analyticsVars,
                   runtimeVars, wireVars>>

\* line 138: record_event("config_push_timeout", ...)
PushLogTimeout(t) ==
    /\ http[t].pc = "p_logto"
    /\ log' = record_event(log, "config_push_timeout", http[t].node, "message")
    /\ http' = [http EXCEPT ![t].pc = "p_popto"]
    /\ UNCHANGED <<narrVars, obsVars, hubPc, conn, subscriptions, net,
                   ack_events, evSet, ack_lock, retained, triggersIn,
                   acksIn, resets, pushes, pubFailed, everRaced, nodeVars,
                   csvVars, dashVars, storeVars, contentVars, analyticsVars,
                   runtimeVars, wireVars>>

\* a timed-out push that returns without removing the waiter
PushPopTimeout_keep(t) ==
    /\ http[t].pc = "p_popto"
    /\ ack_lock = HttpThread(t)
    /\ ack_lock' = Free
    /\ http' = [http EXCEPT ![t] = [HttpIdle EXCEPT !.result = FALSE]]
    /\ evSet' = evSet \ {http[t].ev}
    /\ UNCHANGED <<narrVars, obsVars, hubPc, conn, subscriptions, net,
                   ack_events, log, retained, triggersIn, acksIn, resets,
                   pushes, pubFailed, everRaced, nodeVars, csvVars,
                   dashVars, storeVars, contentVars, analyticsVars,
                   runtimeVars, wireVars>>

\* lines 139-141: the waiter of node_id is popped, return False
PushPopTimeout(t) ==
    /\ http[t].pc = "p_popto"
    /\ ack_lock = HttpThread(t)
    /\ ack_lock' = Free
    /\ ack_events' = ack_pop(ack_events, http[t].node)
    /\ http' = [http EXCEPT ![t] = [HttpIdle EXCEPT !.result = FALSE]]
    /\ evSet' = evSet \ {http[t].ev}
    /\ UNCHANGED <<narrVars, obsVars, hubPc, conn, subscriptions, net, log,
                   retained, triggersIn, acksIn, resets, pushes, pubFailed,
                   everRaced, nodeVars, csvVars, dashVars, storeVars,
                   contentVars, analyticsVars, runtimeVars, wireVars>>

\* ------------------------------------------- pushes answered by the nodes

\* lines 125-126, as PushPublish, with the broker: a config message whose
\* publish succeeded is on its way to the node
PublishConfig(t, rc) ==
    /\ http[t].pc = "p_pub"
    /\ http' = IF rc # 0
               THEN [http EXCEPT ![t].pc = "p_popfail"]
               ELSE [http EXCEPT ![t].pc = "p_wait", ![t].published = TRUE]
    /\ wire' = IF rc # 0 THEN wire
               ELSE [wire EXCEPT !.cfg[http[t].node] = Append(@, http[t].ev)]
    /\ UNCHANGED <<narrVars, obsVars, hubPc, conn, subscriptions, net,
                   ack_events, evSet, ack_lock, log, retained, triggersIn,
                   acksIn, resets, pushes, pubFailed, everRaced, nodeVars,
                   csvVars, dashVars, storeVars, contentVars, analyticsVars,
                   runtimeVars>>

\* NodeService._handle_config_message, lines 321-351, on node n: the
\* payload of a push (json.dumps of a dict) is merged and answered with
\* ack/<n>; when an update raises, the handler is left without an ack
NodeConfigAck(n, raises) ==
    /\ wire.cfg[n] # <<>>
    /\ LET e == Head(wire.cfg[n])
       IN wire' = IF raises
                  THEN [wire EXCEPT !.cfg[n] = Tail(@)]
                  ELSE [wire EXCEPT !.cfg[n] = Tail(@),
                                    !.acks[n] = Append(@, e),
                                    !.merged = @ \cup {e}]
    /\ UNCHANGED <<narrVars, obsVars, hubPc, conn, subscriptions, net, http,
                   ack_events, evSet, ack_lock, log, retained, triggersIn,
                   acksIn, resets, pushes, pubFailed, everRaced, nodeVars,
                   csvVars, dashVars, storeVars, contentVars, analyticsVars,
                   runtimeVars>>

\* as OnAck, for the ack of node n that the broker delivers next
OnNodeAck(n) ==
    /\ net.pc = "idle"
    /\ "ack" \in subscriptions
    /\ acksIn < MaxAcks
    /\ wire.acks[n] # <<>>
    /\ wire' = [wire EXCEPT !.acks[n] = Tail(@), !.src = Head(wire.acks[n])]
    /\ acksIn' = acksIn + 1
    /\ log' = record_event(log, "config_ack", n, "payload")
    /\ net' = [NetIdle EXCEPT !.pc = "a_pop", !.node = n]
    /\ UNCHANGED <<narrVars, obsVars, hubPc, conn, subscriptions, http,
                   ack_events, evSet, ack_lock, retained, triggersIn,
                   resets, pushes, pubFailed, everRaced, nodeVars, csvVars,
                   dashVars, storeVars, contentVars, analyticsVars,
                   runtimeVars>>

\* --------------------------------------------------------- specifications

\* one step of push_node_config on HTTP thread t
PushStep(t) ==
    \/ PushLock(t)
    \/ PushRegister(t)
    \/ \E rc \in ReturnCodes : PushPublish(t, rc)
    \/ PushPopFail(t)
    \/ PushWaitSet(t)
    \/ PushWaitTimeout(t)
    \/ PushLogOk(t)
    \/ PushLogTimeout(t)
    \/ PushPopTimeout(t)

\* one step of reset_state on HTTP thread t, once called
ResetStep(t) ==
    \/ ResetUnlocked(t)
    \/ ResetSnapU(t)
    \/ ResetSnapT(t)
    \/ \E rc \in ReturnCodes : ResetPublish(t, rc)
    \/ ResetLog(t)

\* one step of _handle_trigger on the network thread, once dispatched
TriggerStep ==
    \/ TrigAdd
    \/ TrigCond
    \/ TrigSet
    \/ TrigSnapU
    \/ TrigSnapT
    \/ \E rc \in ReturnCodes : TrigPublish(rc)
    \/ TrigAfter
    \/ TrigLogUnlock

\* one step of _handle_ack on the network thread, once dispatched
AckStep ==
    \/ AckLock
    \/ AckPop
    \/ AckSet

Lifecycle ==
    \/ Start
    \/ \E rc \in ReturnCodes : OnConnect(rc)

\* the narrative side of the hub: trigger ingest and operator resets
NextHub ==
    \/ Lifecycle
    \/ \E n \in Nodes, p \in PayloadKinds : OnTrigger(n, p)
    \/ TriggerStep
    \/ \E t \in Http : ResetClear(t)
    \/ \E t \in Http : ResetStep(t)

SpecHub == Init /\ [][NextHub]_vars

\* the config-push side of the hub: pushes and ack ingest
NextPush ==
    \/ Lifecycle
    \/ \E n \in Nodes : OnAck(n)
    \/ AckStep
    \/ \E t \in Http, n \in Nodes : PushCall(t, n)
    \/ \E t \in Http : PushStep(t)

\* one step of push_node_config on HTTP thread t, with the broker
PushStepWire(t) ==
    \/ PushLock(t)
    \/ PushRegister(t)
    \/ \E rc \in ReturnCodes : PublishConfig(t, rc)
    \/ PushPopFail(t)
    \/ PushWaitSet(t)
    \/ PushWaitTimeout(t)
    \/ PushLogOk(t)
    \/ PushLogTimeout(t)
    \/ PushPopTimeout(t)

\* the hub's pushes and the nodes that answer them
NextPushNode ==
    \/ Lifecycle
    \/ \E t \in Http, n \in Nodes : PushCall(t, n)
    \/ \E t \in Http : PushStepWire(t)
    \/ \E n \in Nodes, raises \in BOOLEAN : NodeConfigAck(n, raises)
    \/ \E n \in Nodes : OnNodeAck(n)
    \/ AckStep

SpecPushNode == Init /\ [][NextPushNode]_vars

\* Threads are scheduled and Event.wait(timeout) returns: every started
\* call and every dispatched handler keeps taking steps.
PushFairness ==
    /\ \A t \in Http : WF_vars(PushStep(t))
    /\ WF_vars(AckStep)

SpecPush == Init /\ [][NextPush]_vars /\ PushFairness

Next ==
    \/ NextHub
    \/ NextPush

Spec == Init /\ [][Next]_vars

\* ===================================================== claims, NarrativeState

\* C1: for any sequence of register_trigger calls since creation or the last
\* reset, the triggered set is the set of distinct ids passed, the call
\* returns true exactly when its id was not already present, and a duplicate
\* call changes neither triggered nor unlocked.
C1_SetSemantics ==
    /\ triggered_whispers = passed
    /\ Cardinality(triggered_whispers) = Cardinality(passed)
    /\ lastCall.op = "register_trigger" =>
         /\ lastCall.ret = (lastCall.node \notin lastCall.pre_triggered)
         /\ lastCall.node \in lastCall.pre_triggered =>
              /\ triggered_whispers = lastCall.pre_triggered
              /\ unlocked = lastCall.pre_unlocked

C1_Witness ==
    /\ lastCall.op = "register_trigger"
    /\ lastCall.node \in lastCall.pre_triggered
    /\ lastCall.ret = FALSE
    /\ Cardinality(passed) = 2

\* C2: within a session unlocked rises exactly once, on the register_trigger
\* call where |triggered| first reaches required, and only reset lowers it.
C2_UnlockOnce ==
    /\ [](rises = IF Cardinality(triggered_whispers) >= required_fragments
                  THEN 1 ELSE 0)
    /\ [][/\ (~unlocked /\ unlocked') =>
                /\ lastCall'.op = "register_trigger"
                /\ Cardinality(triggered_whispers) < required_fragments
                /\ Cardinality(triggered_whispers') = required_fragments
          /\ (unlocked /\ ~unlocked') => lastCall'.op = "reset"]_vars

C2_Witness ==
    /\ lastCall.op = "register_trigger"
    /\ ~lastCall.pre_unlocked
    /\ unlocked
    /\ rises = 1
    /\ required_fragments = 2
    /\ Cardinality(triggered_whispers) = 2

PushReturns(t) == http[t].pc \in PushPcs /\ http'[t].pc = "idle"

\* the _handle_trigger call returns in this step
TriggerReturns == net.pc \in TrigPcs /\ net'.pc = "idle"

\* no handler and no call in progress
Quiescent == net.pc = "idle" /\ \A t \in Http : http[t].pc = "idle"

\* C4, as stated: with a single outstanding push for the node,
\* push_node_config returns true if and only if an ack for the node was
\* ingested after the push registered its waiter and before its wait expired.
C4_TrueIffAckInWindow ==
    [][\A t \in Http :
         (PushReturns(t) /\ http[t].solo) =>
             (http'[t].result = http[t].ackSeen)]_vars

\* C4, amended: with a single outstanding push for the node,
\* push_node_config returns true if and only if its config publish succeeded
\* and an ack for the node was ingested after the push registered its waiter
\* and before its wait expired; when the publish fails it returns false
\* whatever acks were ingested.
C4_TrueIffPublishedAndAck ==
    [][\A t \in Http :
         (PushReturns(t) /\ http[t].solo) =>
             (http'[t].result = (http[t].published /\ http[t].ackSeen))]_vars

\* the only push made has returned true after two acks were ingested
C4_Witness ==
    /\ pushes = 1
    /\ Len(log) = 3
    /\ log[1].event = "config_ack"
    /\ log[2].event = "config_ack"
    /\ log[3].event = "config_push_ok"
    /\ \E t \in Http : http[t].pc = "idle" /\ http[t].result

\* C5: every push_node_config call terminates with a boolean result, whether
\* no ack arrives, the publish fails, or other pushes and acks for the same
\* node interleave with it.
C5_PushTerminates ==
    /\ [](\A t \in Http : http[t].result \in BOOLEAN)
    /\ \A t \in Http : (http[t].pc \in PushPcs) ~> (http[t].pc = "idle")

\* two pushes have returned without any ack, one of them after its timeout
C5_Witness ==
    /\ pushes = 2
    /\ acksIn = 0
    /\ \A t \in Http : http[t].pc = "idle" /\ ~http[t].result
    /\ \E i \in 1..Len(log) : log[i].event = "config_push_timeout"

\* C6: when a second push for a node starts while a first one is waiting,
\* the first push returns false, and the second returns true if and only if
\* (its publish succeeded and) an ack for the node was ingested before its
\* own wait expired.
C6_SecondPushPreempts ==
    [][\A t \in Http :
         PushReturns(t) =>
             /\ http[t].replaced => ~http'[t].result
             /\ (http[t].preempts /\ ~http[t].replaced) =>
                  (http'[t].result = (http[t].published /\ http[t].ackSeen))]_vars

\* C7: a trigger handler records narrative_unlocked if and only if its
\* register_trigger call raised unlocked from false to true; duplicate
\* triggers and triggers after the unlock record none.
C7_UnlockRecordedOnRise ==
    [][TriggerReturns =>
         /\ (net.pc = "t_logunlock") = net.rose
         /\ (net.pc = "t_logunlock") =>
              log' = record_event(log, "narrative_unlocked", net.node, "unlock")
         /\ (net.pc # "t_logunlock") => log' = log]_vars

\* C8: every well-formed trigger causes exactly one state/hub publication
\* with retain=true, issued after register_trigger and carrying the snapshot
\* that results from it; reset_state likewise publishes, once, the emptied
\* snapshot after clearing the state.
C8_PublishAfterMutation ==
    [][/\ (net.pc = "t_pub" /\ net'.pc = "t_after") =>
            /\ net.regDone
            /\ net.node \in triggered_whispers
            /\ net'.pub = <<hub_state_message(
                               snapshot(unlocked, triggered_whispers))>>
       /\ TriggerReturns => net.pubs = 1 /\ net.pubAfterReg
       /\ \A t \in Http :
            /\ (http[t].pc = "r_pub" /\ http'[t].pc = "r_log") =>
                 http'[t].pub = <<hub_state_message(snapshot(FALSE, {}))>>
            /\ (http[t].pc \in ResetPcs /\ http'[t].pc = "idle") =>
                 http[t].pubs = 1]_vars

\* C9: whenever the hub is quiescent and its publishes succeeded, the
\* retained state/hub payload is the current narrative snapshot.
C9_RetainedIsCurrent ==
    (Quiescent /\ ~pubFailed /\ retained # <<>>) =>
        retained = <<snapshot(unlocked, triggered_whispers)>>

\* C10, as stated: after start() and a successful connection the hub is
\* subscribed to the three wildcards and, before any trigger is ingested,
\* the broker retains the initial snapshot on state/hub.
C10_InitialStatePublished ==
    (conn = "ok") =>
        /\ subscriptions = {"health", "trigger", "ack"}
        /\ (triggersIn = 0 /\ resets = 0) =>
             retained = <<snapshot(FALSE, {})>>

\* C10, amended: after start() and a successful connection the hub is
\* subscribed to the three wildcards and nowhere else, but start() and the
\* connection publish nothing: state/hub is retained only once a well-formed
\* trigger has been handled or reset_state has been called.
C10_SubscribedNothingPublished ==
    /\ subscriptions = IF conn = "ok" THEN {"health", "trigger", "ack"} ELSE {}
    /\ (retained # <<>> \/ pubFailed) =>
         \/ resets > 0
         \/ \E i \in 1..Len(log) : /\ log[i].event = "fragment_triggered"
                                    /\ log[i].detail = "json"

\* connected and subscribed; a malformed trigger has been ingested and
\* dropped, and the broker still retains nothing on state/hub
C10_Witness ==
    /\ hubPc = "started"
    /\ conn = "ok"
    /\ subscriptions = {"health", "trigger", "ack"}
    /\ triggersIn = 1
    /\ resets = 0
    /\ Quiescent
    /\ retained = <<>>

\* ------------------------------------------ the same, without overlapping calls

\* A trigger handler that no reset_state call overlaps records
\* narrative_unlocked if and only if its register_trigger raised unlocked.
UnlockRecordedOnRise_NoOverlap ==
    [][(TriggerReturns /\ ~net.raced) =>
         /\ (net.pc = "t_logunlock") = net.rose
         /\ (net.pc = "t_logunlock") =>
              log' = record_event(log, "narrative_unlocked", net.node, "unlock")
         /\ (net.pc # "t_logunlock") => log' = log]_vars

\* A trigger handler, or a reset_state call, that overlaps no call of the
\* other kind publishes the snapshot its mutation produced; the number of
\* publishes and their order after the mutation hold in every interleaving.
PublishAfterMutation_NoOverlap ==
    [][/\ (net.pc = "t_pub" /\ net'.pc = "t_after") =>
            /\ net.regDone
            /\ ~net.raced =>
                 /\ net.node \in triggered_whispers
                 /\ net'.pub = <<hub_state_message(
                                    snapshot(unlocked, triggered_whispers))>>
       /\ TriggerReturns => net.pubs = 1 /\ net.pubAfterReg
       /\ \A t \in Http :
            /\ (http[t].pc = "r_pub" /\ http'[t].pc = "r_log" /\ ~http[t].raced) =>
                 http'[t].pub = <<hub_state_message(snapshot(FALSE, {}))>>
            /\ (http[t].pc \in ResetPcs /\ http'[t].pc = "idle") =>
                 http[t].pubs = 1]_vars

\* As long as no reset_state call has overlapped a trigger handler, the
\* retained payload of a quiescent hub is the current snapshot.
RetainedIsCurrent_NoOverlap ==
    (Quiescent /\ ~pubFailed /\ retained # <<>> /\ ~everRaced) =>
        retained = <<snapshot(unlocked, triggered_whispers)>>

\* ------------------------------------------------ claims, pushes and the log

\* the rows of the given kind for node n among the first k rows
RowsOf(rows, k, event, n) ==
    {i \in 1..k : rows[i].event = event /\ rows[i].node = n}

\* no push_node_config call in progress
NoPushInFlight == \A t \in Http : http[t].pc \notin PushPcs

\* C16, as stated: after a successful push to a node, the log holds the
\* push's config_push_ok row followed by a config_ack row for the node.
C16_OkThenAck ==
    Quiescent =>
        \A i \in 1..Len(log) :
            log[i].event = "config_push_ok" =>
                \E j \in (i + 1)..Len(log) :
                    log[j].event = "config_ack" /\ log[j].node = log[i].node

\* C16, amended: on a successful push to a node, the log holds a config_ack
\* row for the node followed by the push's config_push_ok row, in that
\* order: every config_push_ok row is preceded by a config_ack row of its
\* own for the same node.
C16_AckThenOk ==
    \A i \in 1..Len(log) :
        log[i].event = "config_push_ok" =>
            Cardinality(RowsOf(log, i - 1, "config_ack", log[i].node))
                >= Cardinality(RowsOf(log, i, "config_push_ok", log[i].node))

\* one push, one ack, and the push has returned true
C16_Witness ==
    /\ Quiescent
    /\ pushes = 1
    /\ Len(log) = 2
    /\ log[1].event = "config_ack"
    /\ log[2].event = "config_push_ok"
    /\ log[1].node = log[2].node
    /\ \E t \in Http : http[t].result

\* C17: a push that times out returns false, records exactly one
\* config_push_timeout for its node and leaves no waiter behind; an ack for
\* the node that arrives when no push is in flight is recorded as
\* config_ack, finds no waiter, and changes neither the waiter table nor the
\* narrative state nor the retained hub state.
C17_TimeoutThenLateAck ==
    /\ [](Quiescent =>
            /\ \A n \in Nodes : ack_events[n] = 0
            /\ evSet = {}
            /\ Cardinality({i \in 1..Len(log) :
                   log[i].event \in {"config_push_ok", "config_push_timeout"}})
                 <= pushes)
    /\ [][/\ \A t \in Http :
              /\ (http[t].pc = "p_wait" /\ http'[t].pc = "p_logto") =>
                   log' = log
              /\ (http[t].pc = "p_logto" /\ http'[t].pc = "p_popto") =>
                   log' = record_event(log, "config_push_timeout",
                                       http[t].node, "message")
              /\ (http[t].pc = "p_popto" /\ http'[t].pc = "idle") =>
                   /\ log' = log
                   /\ ~http'[t].result
                   /\ ack_events'[http[t].node] = 0
          /\ (net.pc = "idle" /\ net'.pc = "a_pop" /\ NoPushInFlight) =>
               /\ log' = record_event(log, "config_ack", net'.node, "payload")
               /\ UNCHANGED <<ack_events, evSet>>
          /\ (net.pc = "a_pop" /\ net'.pc = "a_set" /\ NoPushInFlight) =>
               /\ net'.ev = 0
               /\ UNCHANGED <<ack_events, evSet, log>>
          /\ (net.pc = "a_set" /\ net'.pc = "idle" /\ NoPushInFlight) =>
               UNCHANGED <<ack_events, evSet, log, http>>
          /\ (net.pc \in AckPcs \/ net'.pc \in AckPcs) =>
               UNCHANGED <<narrVars, retained>>]_vars

\* the only push timed out, and an ack for its node was handled afterwards
C17_Witness ==
    /\ Quiescent
    /\ pushes = 1
    /\ acksIn = 1
    /\ Len(log) = 2
    /\ log[1].event = "config_push_timeout"
    /\ log[2].event = "config_ack"
    /\ log[1].node = log[2].node
    /\ \A t \in Http : ~http[t].result
    /\ \A n \in Nodes : ack_events[n] = 0

\* C18: a push whose config publish fails returns false without waiting,
\* discards the waiter it registered, and has recorded a
\* config_push_timeout-equivalent event for the node.
C18_PublishFailureRecorded ==
    [][\A t \in Http :
         (http[t].pc = "p_popfail" /\ http'[t].pc = "idle") =>
             /\ ~http'[t].result
             /\ ~http[t].published
             /\ ack_events'[http[t].node] = 0
             /\ \E i \in 1..Len(log') :
                  /\ log'[i].node = http[t].node
                  /\ log'[i].event \notin {"config_ack", "config_push_ok"}]_vars

\* ============================================================ NodeService
\* The node runs two threads: the loop thread calls run_once every 0.2 s
\* (run_forever, lines 417-419) and the MQTT client's thread calls the
\* message handlers (loop_start).  No lock guards the fields they share.
\* A tick and a handler are atomic here except for _apply_accessibility,
\* which both threads execute on the one AudioPlayer: its reads and writes
\* are separate steps.

\* a guard that looks at the cooldown alone
story_rejected_cooldown_only(st, now) == now < st.cooldown_until

\* _queue_story line 459 and _start_story line 477 (without force)
story_rejected(st, now) == now < st.cooldown_until \/ st.story_active

\* _start_story, lines 479-482: the fragment is configured and on disk
fragment_ready(cfg) == cfg.fragment_exists

TriggerMsg(role, now) ==
    [topic |-> "trigger", role |-> role, ts |-> now, applied |-> <<>>]
HealthMsg(role, now) ==
    [topic |-> "health", role |-> role, ts |-> now, applied |-> <<>>]
AckMsg(applied) ==
    [topic |-> "ack", role |-> "", ts |-> 0, applied |-> applied]

\* NodeService.__init__: the configuration file is loaded, the story
\* fields are initialised and _apply_accessibility runs on the one thread
\* there is
NodeBoot(role, buf, lim, vol) ==
    /\ nodePc = "off"
    /\ nodePc' = "running"
    /\ config' = [DefaultConfig EXCEPT !.role = role,
                                      !.fragment_exists = TRUE,
                                      !.volume = vol,
                                      !.mobility_buffer_ms = buf,
                                      !.safety_limiter = lim]
    /\ story' = StoryInit
    /\ audio' = [safety_limit |-> clamp_unit(safety_limit(lim)),
                 mixer_volume |->
                     effective_volume(vol, clamp_unit(safety_limit(lim)))]
    /\ outbox' = <<>>
    /\ UNCHANGED <<narrVars, obsVars, hubPc, conn, subscriptions, net, http,
                   ack_events, evSet, ack_lock, log, retained, triggersIn,
                   acksIn, resets, pushes, pubFailed, everRaced, thr, clock,
                   nodeObs, csvVars, dashVars, storeVars, contentVars,
                   analyticsVars, runtimeVars, wireVars>>

\* a node that waits one second longer
heartbeat_due_late(st, now) ==
    ~(now - st.last_heartbeat_ts < HEARTBEAT_INTERVAL_SECONDS + 1)

\* _publish_heartbeat_if_due, line 524
heartbeat_due(st, now) ==
    ~(now - st.last_heartbeat_ts < HEARTBEAT_INTERVAL_SECONDS)

\* the thread enters _start_story's lines 484-485 from the given call site
EnterStory(th, site, now) ==
    [thr EXCEPT ![th] = [ThreadIdle EXCEPT !.pc = "ap_limit", !.site = site,
                                           !.now = now]]

\* run_once(now) up to the point where a story starts, or to its end,
\* heartbeat included, when none does.
Tick(r, t) ==
    /\ nodePc = "running"
    /\ thr["main"].pc = "idle"
    /\ t >= clock
    /\ clock' = t
    /\ LET whisper == config.role # "mystery"
           near == r # None /\ in_range(config, r[1])
           \* _process_distance, lines 428-450
           queue == whisper /\ near /\ ~story_rejected(story, t)
           startQ == queue /\ buffer_seconds(config) <= 0
                           /\ fragment_ready(config)
           sets == queue /\ buffer_seconds(config) > 0
                         /\ story.pending_story_at = None
           pending1 ==
               IF ~whisper THEN story.pending_story_at
               ELSE IF ~near THEN None
               ELSE IF sets THEN Some(t + buffer_seconds(config))
               ELSE story.pending_story_at
           \* _process_pending_story, lines 471-474
           due == pending1 # None /\ t >= pending1[1]
           startP == due /\ ~story_rejected(story, t) /\ fragment_ready(config)
           pending2 == IF due THEN None ELSE pending1
           \* _update_story_state, lines 515-517
           active3 == IF story.story_active /\ t >= story.story_reset_time
                      THEN FALSE ELSE story.story_active
           \* _publish_heartbeat_if_due, lines 523-537
           beat == ~startQ /\ ~startP /\ heartbeat_due(story, t)
       IN /\ nodeObs' = [nodeObs EXCEPT
                 !.last_beat = IF beat THEN Some(t) ELSE nodeObs.last_beat,
                 !.run_start = IF ~(whisper /\ near) THEN None
                               ELSE IF nodeObs.run_start = None THEN Some(t)
                               ELSE nodeObs.run_start,
                 !.queued_buffer = IF sets THEN config.mobility_buffer_ms
                                   ELSE nodeObs.queued_buffer]
          /\ IF startQ
             THEN /\ thr' = EnterStory("main", "queue", t)
                  /\ story' = [story EXCEPT !.pending_story_at = pending1]
             ELSE IF startP
             THEN /\ thr' = EnterStory("main", "pending", t)
                  /\ story' = [story EXCEPT !.pending_story_at = pending1]
             ELSE /\ thr' = thr
                  /\ story' = [story EXCEPT
                         !.pending_story_at = pending2,
                         !.story_active = active3,
                         !.last_heartbeat_ts =
                             IF beat THEN t ELSE story.last_heartbeat_ts]
          /\ outbox' = IF beat THEN <<HealthMsg(config.role, t)>> ELSE <<>>
    /\ UNCHANGED <<narrVars, obsVars, hubPc, conn, subscriptions, net, http,
                   ack_events, evSet, ack_lock, log, retained, triggersIn,
                   acksIn, resets, pushes, pubFailed, everRaced, nodePc,
                   config, audio, csvVars, dashVars, storeVars, contentVars,
                   analyticsVars, runtimeVars, wireVars>>

\* _apply_accessibility, line 253: the argument safety_limit() is evaluated
ApplyReadLimiter(th) ==
    /\ thr[th].pc = "ap_limit"
    /\ thr' = [thr EXCEPT ![th].pc = "ap_set_limit",
                          ![th].limit = safety_limit(config.safety_limiter)]
    /\ outbox' = <<>>
    /\ UNCHANGED <<narrVars, obsVars, hubPc, conn, subscriptions, net, http,
                   ack_events, evSet, ack_lock, log, retained, triggersIn,
                   acksIn, resets, pushes, pubFailed, everRaced, nodePc,
                   config, story, audio, clock, nodeObs, csvVars, dashVars,
                   storeVars, contentVars, analyticsVars, runtimeVars,
                   wireVars>>

\* AudioPlayer.set_safety_limit, line 40
ApplySetLimit(th) ==
    /\ thr[th].pc = "ap_set_limit"
    /\ audio' = [audio EXCEPT !.safety_limit = clamp_unit(thr[th].limit)]
    /\ thr' = [thr EXCEPT ![th].pc = "ap_volume"]
    /\ outbox' = <<>>
    /\ UNCHANGED <<narrVars, obsVars, hubPc, conn, subscriptions, net, http,
                   ack_events, evSet, ack_lock, log, retained, triggersIn,
                   acksIn, resets, pushes, pubFailed, everRaced, nodePc,
                   config, story, clock, nodeObs, csvVars, dashVars,
                   storeVars, contentVars, analyticsVars, runtimeVars,
                   wireVars>>

\* _apply_accessibility, line 254: the argument config.audio.volume is read
ApplyReadVolume(th) ==
    /\ thr[th].pc = "ap_volume"
    /\ thr' = [thr EXCEPT ![th].pc = "ap_effective",
                          ![th].vol = config.volume]
    /\ outbox' = <<>>
    /\ UNCHANGED <<narrVars, obsVars, hubPc, conn, subscriptions, net, http,
                   ack_events, evSet, ack_lock, log, retained, triggersIn,
                   acksIn, resets, pushes, pubFailed, everRaced, nodePc,
                   config, story, audio, clock, nodeObs, csvVars, dashVars,
                   storeVars, contentVars, analyticsVars, runtimeVars,
                   wireVars>>

\* AudioPlayer.set_volume, lines 44-45: _safety_limit is read
ApplyEffective(th) ==
    /\ thr[th].pc = "ap_effective"
    /\ thr' = [thr EXCEPT ![th].pc = "ap_mixer",
                          ![th].eff = effective_volume(thr[th].vol,
                                                       audio.safety_limit)]
    /\ outbox' = <<>>
    /\ UNCHANGED <<narrVars, obsVars, hubPc, conn, subscriptions, net, http,
                   ack_events, evSet, ack_lock, log, retained, triggersIn,
                   acksIn, resets, pushes, pubFailed, everRaced, nodePc,
                   config, story, audio, clock, nodeObs, csvVars, dashVars,
                   storeVars, contentVars, analyticsVars, runtimeVars,
                   wireVars>>

\* AudioPlayer.set_volume, line 49: mixer.music.set_volume(effective), on
\* a node whose mixer is available
ApplyMixer(th) ==
    /\ thr[th].pc = "ap_mixer"
    /\ audio' = [audio EXCEPT !.mixer_volume = thr[th].eff]
    /\ thr' = [thr EXCEPT ![th].pc = "resume"]
    /\ outbox' = <<>>
    /\ UNCHANGED <<narrVars, obsVars, hubPc, conn, subscriptions, net, http,
                   ack_events, evSet, ack_lock, log, retained, triggersIn,
                   acksIn, resets, pushes, pubFailed, everRaced, nodePc,
                   config, story, clock, nodeObs, csvVars, dashVars,
                   storeVars, contentVars, analyticsVars, runtimeVars,
                   wireVars>>

ApplyStep(th) ==
    \/ ApplyReadLimiter(th)
    \/ ApplySetLimit(th)
    \/ ApplyReadVolume(th)
    \/ ApplyEffective(th)
    \/ ApplyMixer(th)

\* _start_story, lines 486-491: the clip plays and _story_active is set.
\* The loop thread's _update_story_state may run between this write and the
\* write of _story_reset_time (line 494) when the story is started by the
\* MQTT thread.
StoryActivate(th) ==
    /\ thr[th].pc = "resume"
    /\ thr[th].site \in {"queue", "pending", "state"}
    /\ story' = [story EXCEPT !.story_active = TRUE]
    /\ thr' = [thr EXCEPT ![th].pc = "started"]
    /\ outbox' = <<>>
    /\ UNCHANGED <<narrVars, obsVars, hubPc, conn, subscriptions, net, http,
                   ack_events, evSet, ack_lock, log, retained, triggersIn,
                   acksIn, resets, pushes, pubFailed, everRaced, nodePc,
                   config, audio, clock, nodeObs, csvVars, dashVars,
                   storeVars, contentVars, analyticsVars, runtimeVars,
                   wireVars>>

\* _start_story, lines 492-513, and the rest of the caller: of run_once
\* (lines 400-402 after _queue_story, lines 474 and 401-402 after
\* _process_pending_story), of _handle_state_message (line 364)
StoryFinish(th) ==
    /\ thr[th].pc = "started"
    /\ thr[th].site \in {"queue", "pending", "state"}
    /\ LET now == thr[th].now
           site == thr[th].site
           pend == story.pending_story_at
           beat == site # "state" /\ heartbeat_due(story, now)
       IN /\ story' = [story EXCEPT
                 !.last_heartbeat_ts =
                     IF beat THEN now ELSE story.last_heartbeat_ts,
                 !.last_trigger_ts = now,
                 !.cooldown_until = now + RETRIGGER_COOLDOWN_SECONDS,
                 !.story_reset_time = now + STORY_RESET_SECONDS,
                 !.pending_story_at =
                     IF site = "pending" THEN None
                     ELSE IF site = "queue" /\ pend # None /\ now >= pend[1]
                          THEN None
                     ELSE pend,
                 !.mystery_played =
                     IF site = "state" THEN TRUE ELSE story.mystery_played]
          /\ outbox' = <<TriggerMsg(config.role, now)>>
                        \o (IF beat THEN <<HealthMsg(config.role, now)>>
                            ELSE <<>>)
          /\ wire' = IF config.role = "mystery" /\ "trigger" \in subscriptions
                     THEN [wire EXCEPT !.trig = @ + 1] ELSE wire
          /\ nodeObs' = [nodeObs EXCEPT
                 !.last_beat = IF beat THEN Some(now) ELSE nodeObs.last_beat,
                 !.last_trigger = Some(now),
                 !.prev_trigger = nodeObs.last_trigger,
                 !.run_starts = IF site = "state" THEN nodeObs.run_starts + 1
                                ELSE nodeObs.run_starts]
    /\ thr' = [thr EXCEPT ![th] = ThreadIdle]
    /\ UNCHANGED <<narrVars, obsVars, hubPc, conn, subscriptions, net, http,
                   ack_events, evSet, ack_lock, log, retained, triggersIn,
                   acksIn, resets, pushes, pubFailed, everRaced, nodePc,
                   config, audio, clock, csvVars, dashVars, storeVars,
                   contentVars, analyticsVars, runtimeVars>>

\* handle_mqtt_message, lines 314-315: a message on config/<node> arrives
ConfigDispatch(m) ==
    /\ nodePc = "running"
    /\ thr["mqtt"].pc = "idle"
    /\ nodeObs.configIn < MaxConfigMsgs
    /\ nodeObs' = [nodeObs EXCEPT !.configIn = nodeObs.configIn + 1]
    /\ thr' = [thr EXCEPT !["mqtt"] =
                  [ThreadIdle EXCEPT !.pc = "config", !.site = "config",
                                     !.data = m]]
    /\ outbox' = <<>>
    /\ UNCHANGED <<narrVars, obsVars, hubPc, conn, subscriptions, net, http,
                   ack_events, evSet, ack_lock, log, retained, triggersIn,
                   acksIn, resets, pushes, pubFailed, everRaced, nodePc,
                   config, story, audio, clock, csvVars, dashVars,
                   storeVars, contentVars, analyticsVars, runtimeVars,
                   wireVars>>

\* a handler that takes every JSON value for an object
is_object_any_json(data) == data.kind # "invalid"

\* _handle_config_message, lines 322-329: json.loads succeeds and the value
\* is a dict
is_object(data) == data.kind = "object"

\* _handle_config_message, lines 322-343.  Invalid JSON and a payload that
\* is not an object return at once.  An update that raises (ValueError or
\* TypeError of int() / float()) leaves the handler by the exception: what
\* was merged before stays merged and nothing is published.
ConfigMerge ==
    /\ thr["mqtt"].pc = "config"
    /\ LET data == thr["mqtt"].data
           r == merge_config(config, data)
       IN IF ~is_object(data)
          THEN /\ thr' = [thr EXCEPT !["mqtt"] = ThreadIdle]
               /\ config' = config
               /\ outbox' = <<>>
               /\ nodeObs' = [nodeObs EXCEPT !.dropped = TRUE]
          ELSE /\ config' = r.cfg
               /\ nodeObs' = [nodeObs EXCEPT !.dropped = FALSE]
               /\ IF r.raised
                  THEN /\ thr' = [thr EXCEPT !["mqtt"] = ThreadIdle]
                       /\ outbox' = <<>>
                  ELSE IF r.apply
                  THEN /\ thr' = [thr EXCEPT !["mqtt"].pc = "ap_limit"]
                       /\ outbox' = <<>>
                  ELSE /\ thr' = [thr EXCEPT !["mqtt"] = ThreadIdle]
                       /\ outbox' = <<AckMsg(applied_groups(data))>>
    /\ UNCHANGED <<narrVars, obsVars, hubPc, conn, subscriptions, net, http,
                   ack_events, evSet, ack_lock, log, retained, triggersIn,
                   acksIn, resets, pushes, pubFailed, everRaced, nodePc,
                   story, audio, clock, csvVars, dashVars, storeVars,
                   contentVars, analyticsVars, runtimeVars, wireVars>>

\* _handle_config_message, lines 342-351, after _apply_accessibility
ConfigAck ==
    /\ thr["mqtt"].pc = "resume"
    /\ thr["mqtt"].site = "config"
    /\ outbox' = <<AckMsg(applied_groups(thr["mqtt"].data))>>
    /\ thr' = [thr EXCEPT !["mqtt"] = ThreadIdle]
    /\ UNCHANGED <<narrVars, obsVars, hubPc, conn, subscriptions, net, http,
                   ack_events, evSet, ack_lock, log, retained, triggersIn,
                   acksIn, resets, pushes, pubFailed, everRaced, nodePc,
                   config, story, audio, clock, nodeObs, csvVars, dashVars,
                   storeVars, contentVars, analyticsVars, runtimeVars,
                   wireVars>>

\* a node without the latch
finale_due_unlatched(p, played) == p = "true"

\* _handle_state_message, lines 359-360: bool(data.get("unlocked")) and
\* the latch
finale_due(p, played) == p = "true" /\ ~played

\* handle_mqtt_message, lines 316-317: a message on state/hub arrives at a
\* mystery node (a whisper node is not subscribed and ignores the topic)
StateDispatch(p) ==
    /\ nodePc = "running"
    /\ config.role = "mystery"
    /\ thr["mqtt"].pc = "idle"
    /\ nodeObs.stateIn < MaxStateMsgs
    /\ nodeObs' = [nodeObs EXCEPT !.stateIn = nodeObs.stateIn + 1]
    /\ thr' = [thr EXCEPT !["mqtt"] =
                  [ThreadIdle EXCEPT !.pc = "state", !.site = "state",
                                     !.state = p]]
    /\ outbox' = <<>>
    /\ UNCHANGED <<narrVars, obsVars, hubPc, conn, subscriptions, net, http,
                   ack_events, evSet, ack_lock, log, retained, triggersIn,
                   acksIn, resets, pushes, pubFailed, everRaced, nodePc,
                   config, story, audio, clock, csvVars, dashVars,
                   storeVars, contentVars, analyticsVars, runtimeVars,
                   wireVars>>

\* _handle_state_message, lines 354-366.  Invalid JSON returns; a JSON
\* value that is not an object leaves the handler by the AttributeError of
\* data.get; an object without "unlocked" reads as unlocked = false.
StateHandle(t) ==
    /\ thr["mqtt"].pc = "state"
    /\ t \in clock..MaxTime
    /\ LET p == thr["mqtt"].state
           start == finale_due(p, story.mystery_played)
       IN /\ clock' = IF start THEN t ELSE clock
          /\ IF start /\ fragment_ready(config)
             THEN /\ thr' = [thr EXCEPT !["mqtt"].pc = "ap_limit",
                                        !["mqtt"].now = t]
                  /\ UNCHANGED <<story, nodeObs>>
             ELSE /\ thr' = [thr EXCEPT !["mqtt"] = ThreadIdle]
                  /\ story' = [story EXCEPT !.mystery_played =
                                  IF start THEN TRUE
                                  ELSE IF p \in {"false", "absent"} THEN FALSE
                                  ELSE story.mystery_played]
                  /\ nodeObs' = [nodeObs EXCEPT !.run_starts =
                                    IF p \in {"false", "absent"} THEN 0
                                    ELSE nodeObs.run_starts]
    /\ outbox' = <<>>
    /\ UNCHANGED <<narrVars, obsVars, hubPc, conn, subscriptions, net, http,
                   ack_events, evSet, ack_lock, log, retained, triggersIn,
                   acksIn, resets, pushes, pubFailed, everRaced, nodePc,
                   config, audio, csvVars, dashVars, storeVars, contentVars,
                   analyticsVars, runtimeVars, wireVars>>

\* the id under which the mystery node publishes trigger/<node>
MysteryNode == NumNodes

\* _on_connect, lines 299-301: the mystery node subscribes to state/hub
\* and the broker sends it the retained message, if there is one
NodeSubscribe ==
    /\ nodePc = "running"
    /\ config.role = "mystery"
    /\ ~wire.subscribed
    /\ wire' = [wire EXCEPT !.subscribed = TRUE,
                            !.state = IF retained = <<>> THEN <<>>
                                      ELSE <<IF retained[1].unlocked
                                             THEN "true" ELSE "false">>]
    /\ outbox' = <<>>
    /\ UNCHANGED <<narrVars, obsVars, hubPc, conn, subscriptions, net, http,
                   ack_events, evSet, ack_lock, log, retained, triggersIn,
                   acksIn, resets, pushes, pubFailed, everRaced, nodePc,
                   config, story, audio, thr, clock, nodeObs, csvVars,
                   dashVars, storeVars, contentVars, analyticsVars,
                   runtimeVars>>

\* handle_mqtt_message, lines 316-317, as StateDispatch: the state/hub
\* message that the broker delivers next
StateDeliver ==
    /\ nodePc = "running"
    /\ config.role = "mystery"
    /\ thr["mqtt"].pc = "idle"
    /\ wire.state # <<>>
    /\ wire' = [wire EXCEPT !.state = Tail(@)]
    /\ nodeObs' = [nodeObs EXCEPT !.stateIn = nodeObs.stateIn + 1]
    /\ thr' = [thr EXCEPT !["mqtt"] =
                  [ThreadIdle EXCEPT !.pc = "state", !.site = "state",
                                     !.state = Head(wire.state)]]
    /\ outbox' = <<>>
    /\ UNCHANGED <<narrVars, obsVars, hubPc, conn, subscriptions, net, http,
                   ack_events, evSet, ack_lock, log, retained, triggersIn,
                   acksIn, resets, pushes, pubFailed, everRaced, nodePc,
                   config, story, audio, clock, csvVars, dashVars,
                   storeVars, contentVars, analyticsVars, runtimeVars>>

\* _on_message -> _handle_trigger, as OnTrigger: the trigger/<node> of the
\* mystery node that the broker delivers next
OnNodeTrigger ==
    /\ net.pc = "idle"
    /\ "trigger" \in subscriptions
    /\ wire.trig > 0
    /\ wire' = [wire EXCEPT !.trig = @ - 1]
    /\ log' = record_event(log, "fragment_triggered", MysteryNode, "json")
    /\ net' = [NetIdle EXCEPT !.pc = "t_add", !.node = MysteryNode,
                              !.before = unlocked,
                              !.raced = ResetInProgress]
    /\ http' = [t \in Http |->
                  IF http[t].pc \in ResetPcs
                  THEN [http[t] EXCEPT !.raced = TRUE] ELSE http[t]]
    /\ everRaced' = (everRaced \/ ResetInProgress)
    /\ UNCHANGED <<narrVars, obsVars, hubPc, conn, subscriptions,
                   ack_events, evSet, ack_lock, retained, triggersIn,
                   acksIn, resets, pushes, pubFailed, nodeVars, csvVars,
                   dashVars, storeVars, contentVars, analyticsVars,
                   runtimeVars>>

NodeStep ==
    \/ \E th \in Threads : ApplyStep(th)
    \/ \E th \in Threads : StoryActivate(th)
    \/ \E th \in Threads : StoryFinish(th)

ConfigStep ==
    \/ ConfigMerge
    \/ ConfigAck

\* the payloads that bear on when a story starts: the mobility buffers
TimingPayloads ==
    {ConfigPayload("object", AudioAbsent, ProximityAbsent,
                   AccessibilityGroup("mapping", "number", b, "absent")) :
        b \in Buffers}

\* a whisper node: ticks with readings, config messages
NextWhisper ==
    \/ \E buf \in Buffers : NodeBoot("whisper", buf, TRUE, 100)
    \/ \E r \in Readings, t \in 0..MaxTime : Tick(r, t)
    \/ \E m \in TimingPayloads : ConfigDispatch(m)
    \/ ConfigStep
    \/ NodeStep

SpecWhisper == Init /\ [][NextWhisper]_vars

\* the payloads that bear on the finale: a fragment that is missing, and
\* one that goes through _apply_accessibility
MysteryPayloads ==
    {ConfigPayload("object", AudioGroup("mapping", "missing", "absent", 0),
                   ProximityAbsent, AccessibilityAbsent),
     ConfigPayload("object", AudioAbsent, ProximityAbsent,
                   AccessibilityGroup("mapping", "absent", 0, "false"))}

\* a mystery node: ticks with readings, state/hub and config messages
NextMystery ==
    \/ \E buf \in Buffers : NodeBoot("mystery", buf, TRUE, 100)
    \/ \E r \in Readings, t \in 0..MaxTime : Tick(r, t)
    \/ \E p \in StatePayloads : StateDispatch(p)
    \/ \E t \in 0..MaxTime : StateHandle(t)
    \/ \E m \in MysteryPayloads : ConfigDispatch(m)
    \/ ConfigStep
    \/ NodeStep

SpecMystery == Init /\ [][NextMystery]_vars

\* a whisper node under config messages of every kind, with ticks at the
\* first and the last second
NextConfig ==
    \/ \E lim \in BOOLEAN, vol \in Volumes : NodeBoot("whisper", 0, lim, vol)
    \/ \E r \in Readings, t \in {0, MaxTime} : Tick(r, t)
    \/ \E m \in ConfigPayloads : ConfigDispatch(m)
    \/ ConfigStep
    \/ NodeStep

SpecConfig == Init /\ [][NextConfig]_vars

\* tick times around the multiples of the heartbeat interval
HeartbeatTimes == {0, 7, 14, 15, 16, 23, 29, 30, 31, 38, 45, 46}

\* a node of either role whose loop ticks over a longer time
NextHeartbeat ==
    \/ \E role \in Roles, buf \in {0, 1000} : NodeBoot(role, buf, TRUE, 100)
    \/ \E r \in Readings, t \in HeartbeatTimes : Tick(r, t)
    \/ NodeStep

SpecHeartbeat == Init /\ [][NextHeartbeat]_vars



\* ================================================ claims, the whisper node
\* the loop thread decides, in this step, to start a story from the site
StartsFrom(site) ==
    /\ thr["main"].pc = "idle"
    /\ thr'["main"].pc = "ap_limit"
    /\ thr'["main"].site = site

\* the step publishes a message on the topic
Publishes(topic) ==
    /\ thr' # thr
    /\ outbox' # <<>>
    /\ outbox'[1].topic = topic

\* C11: a whisper node publishes no trigger while story_active is true, and
\* none less than RETRIGGER_COOLDOWN_SECONDS after its previous trigger,
\* whatever the ticks, readings and config messages.
C11_NoEarlyRetrigger ==
    /\ [](config.role = "whisper" /\ nodeObs.prev_trigger # None =>
            nodeObs.last_trigger[1] >=
                nodeObs.prev_trigger[1] + RETRIGGER_COOLDOWN_SECONDS)
    /\ [][config.role = "whisper" /\ StartsFrom("queue") =>
            ~story.story_active]_vars
    /\ [][config.role = "whisper" /\ StartsFrom("pending") =>
            ~story.story_active]_vars
    /\ [][config.role = "whisper" /\ Publishes("trigger") =>
            /\ thr["main"].pc = "started"
            /\ outbox'[1].ts = nodeObs'.last_trigger[1]
            /\ nodeObs'.prev_trigger = nodeObs.last_trigger]_vars

\* a whisper node has just published its second trigger
C11_Witness ==
    /\ config.role = "whisper"
    /\ nodeObs.prev_trigger # None
    /\ outbox # <<>>
    /\ outbox[1].topic = "trigger"

Starts(th) == thr[th].pc # "ap_limit" /\ thr'[th].pc = "ap_limit"
                /\ thr'[th].site # "config"

\* the MQTT thread handles, in this step, a state/hub payload of the kind
Handles(p) == thr["mqtt"].pc = "state" /\ thr'["mqtt"].pc # "state"
                /\ thr["mqtt"].state = p

\* C13: a mystery node starts a story only when it handles a state/hub
\* message with unlocked = true while mystery_played is false, never from a
\* reading; the start sets mystery_played; while the latch is set an
\* unlocked = true message starts nothing; an unlocked = false message
\* clears the latch; so at most one finale starts per run of unlocked = true
\* states.
C13_FinaleOncePerUnlock ==
    /\ [](config.role = "mystery" => nodeObs.run_starts <= 1)
    /\ [][config.role = "mystery" =>
            /\ ~Starts("main")
            /\ Starts("mqtt") => Handles("true") /\ ~story.mystery_played
            /\ Publishes("trigger") =>
                 thr["mqtt"].site = "state" /\ story'.mystery_played
            /\ Handles("true") /\ story.mystery_played =>
                 thr'["mqtt"].pc = "idle" /\ story' = story /\ outbox' = <<>>
            /\ Handles("false") =>
                 ~story'.mystery_played /\ thr'["mqtt"].pc = "idle"]_vars

\* the finale has been published for the second time, after a reset
C13_Witness ==
    /\ config.role = "mystery"
    /\ nodeObs.prev_trigger # None
    /\ nodeObs.run_starts = 1
    /\ nodeObs.stateIn = 3
    /\ story.mystery_played
    /\ outbox # <<>>
    /\ outbox[1].topic = "trigger"


\* ============================================== claims, config at the node
\* the MQTT thread returns, in this step, from the config handler
ConfigReturns ==
    /\ thr["mqtt"].site = "config"
    /\ thr'["mqtt"].pc = "idle"

\* every well-formed field of every group present as a mapping is in cfg
Merged(cfg, data) ==
    /\ is_mapping(data.audio) /\ data.audio.fragment_file # "absent" =>
         cfg.fragment_exists = (data.audio.fragment_file = "exists")
    /\ is_mapping(data.audio) /\ data.audio.volume_is = "number" =>
         cfg.volume = data.audio.volume
    /\ is_mapping(data.proximity)
         /\ data.proximity.story_threshold_mm_is = "number" =>
         cfg.story_threshold_mm = data.proximity.story_threshold_mm
    /\ is_mapping(data.accessibility)
         /\ data.accessibility.mobility_buffer_ms_is = "number" =>
         cfg.mobility_buffer_ms = data.accessibility.mobility_buffer_ms
    /\ is_mapping(data.accessibility)
         /\ data.accessibility.safety_limiter # "absent" =>
         cfg.safety_limiter = (data.accessibility.safety_limiter = "true")

\* C14: for every config payload that is a JSON object, whatever the values
\* in its groups, the handler merges the groups present as mappings and
\* returns having published exactly one ack whose applied list holds
\* exactly those groups.
C14_ObjectMergedAndAcked ==
    [][ConfigReturns /\ thr["mqtt"].data.kind = "object" =>
          /\ outbox' = <<AckMsg(applied_groups(thr["mqtt"].data))>>
          /\ Merged(config', thr["mqtt"].data)]_vars

NodeQuiescent == \A th \in Threads : thr[th].pc = "idle"

\* C20: whenever safety_limiter is true, the volume applied to the audio
\* output is at most 0.75, after any config messages and story starts.
C20_LimiterCapsVolume ==
    nodePc = "running" /\ NodeQuiescent /\ config.safety_limiter =>
        audio.mixer_volume <= safety_limit(TRUE)


\* ========================================================= CsvEventLogger
\* One logger object at a time appends to the files of one logs directory;
\* its calls are made one after the other here.  Every record_event ends
\* with a flush, so a restart between two calls finds on disk all that was
\* written.

\* a logger that writes the header at every open
header_needed_always(file) == TRUE

\* _ensure_writer, lines 79-83: the header is written when the file did not
\* exist before the open
header_needed(file) == ~file.exists

\* _ensure_writer, line 70: the writer at hand serves the date
writer_serves(lg, date) == lg.current_date = Some(date) /\ lg.writer # None

\* _ensure_writer: the directory after the open of <date>_events.csv in
\* append mode, with the header if needed
opened(dir, date) ==
    [dir EXCEPT ![date] =
        [exists |-> TRUE,
         lines |-> IF header_needed(dir[date]) THEN Append(dir[date].lines, Header)
                   ELSE dir[date].lines]]

\* record_event, lines 31-47: the timestamp is taken, the writer is made to
\* serve its date, the row is written to the writer's file and flushed
RecordEvent ==
    /\ csvObs.calls < MaxLogCalls
    /\ LET date == utc_date
           reopen == ~writer_serves(logger, date)
           dir1 == IF reopen THEN opened(logs_dir, date) ELSE logs_dir
           lg1 == IF reopen THEN [current_date |-> Some(date),
                                  writer |-> Some(date)]
                  ELSE logger
           file == lg1.writer[1]
       IN /\ logger' = lg1
          /\ logs_dir' = [dir1 EXCEPT ![file].lines = Append(@, Row(date))]
    /\ csvObs' = [csvObs EXCEPT !.calls = csvObs.calls + 1]
    /\ UNCHANGED <<narrVars, obsVars, hubPc, conn, subscriptions, net, http,
                   ack_events, evSet, ack_lock, log, retained, triggersIn,
                   acksIn, resets, pushes, pubFailed, everRaced, nodeVars,
                   utc_date, event_logger, dashVars, storeVars, contentVars,
                   analyticsVars, runtimeVars, wireVars>>

\* close, lines 51-60
LoggerClose ==
    /\ csvObs.calls < MaxLogCalls
    /\ logger' = LoggerInit
    /\ csvObs' = [csvObs EXCEPT !.calls = csvObs.calls + 1]
    /\ UNCHANGED <<narrVars, obsVars, hubPc, conn, subscriptions, net, http,
                   ack_events, evSet, ack_lock, log, retained, triggersIn,
                   acksIn, resets, pushes, pubFailed, everRaced, nodeVars,
                   utc_date, logs_dir, event_logger, dashVars, storeVars,
                   contentVars, analyticsVars, runtimeVars, wireVars>>

\* the process ends and a new one constructs its CsvEventLogger on the same
\* directory (__init__, lines 21-27)
ProcessRestart ==
    /\ csvObs.calls < MaxLogCalls
    /\ logger' = LoggerInit
    /\ csvObs' = [csvObs EXCEPT !.calls = csvObs.calls + 1,
                                !.restarts = csvObs.restarts + 1]
    /\ UNCHANGED <<narrVars, obsVars, hubPc, conn, subscriptions, net, http,
                   ack_events, evSet, ack_lock, log, retained, triggersIn,
                   acksIn, resets, pushes, pubFailed, everRaced, nodeVars,
                   utc_date, logs_dir, event_logger, dashVars, storeVars,
                   contentVars, analyticsVars, runtimeVars, wireVars>>

\* the UTC date of the wall clock changes (midnight passes; the clock is set)
DayChanges(d) ==
    /\ d # utc_date
    /\ utc_date' = d
    /\ UNCHANGED <<narrVars, obsVars, hubPc, conn, subscriptions, net, http,
                   ack_events, evSet, ack_lock, log, retained, triggersIn,
                   acksIn, resets, pushes, pubFailed, everRaced, nodeVars,
                   logs_dir, logger, csvObs, event_logger, dashVars,
                   storeVars, contentVars, analyticsVars, runtimeVars,
                   wireVars>>

NextCsv ==
    \/ RecordEvent
    \/ LoggerClose
    \/ ProcessRestart
    \/ \E d \in Days : DayChanges(d)

SpecCsv == Init /\ [][NextCsv]_vars

\* ===================================================== claims, the logger
\* the file of the date is a header followed by rows of that date
WellFormedFile(file, d) ==
    IF file.exists
    THEN /\ Len(file.lines) >= 2
         /\ file.lines[1] = Header
         /\ \A i \in 2..Len(file.lines) : file.lines[i] = Row(d)
    ELSE file.lines = <<>>

\* C19: across record calls, day changes, close() calls and restarts, every
\* row is in the file named for the date of its own timestamp - a record
\* appends one row to that date's file, creating it if it is the first of
\* the date, and touches no other file - and every file holds the header
\* exactly once, as its first line.
C19_RowsByDateHeaderOnce ==
    /\ [](\A d \in Days : WellFormedFile(logs_dir[d], d))
    /\ [][csvObs'.calls # csvObs.calls /\ logger' # LoggerInit =>
            /\ \A d \in Days \ {utc_date} : logs_dir'[d] = logs_dir[d]
            /\ logs_dir'[utc_date].exists
            /\ logs_dir'[utc_date].lines =
                 Append(IF logs_dir[utc_date].exists
                        THEN logs_dir[utc_date].lines ELSE <<Header>>,
                        Row(utc_date))]_vars

\* after a restart and a return to the first date, that date's file holds
\* the header and three rows, and another date's file holds its own
C19_Witness ==
    /\ csvObs.restarts >= 1
    /\ utc_date = 0
    /\ Len(logs_dir[0].lines) = 4
    /\ logs_dir[1].exists
    /\ logger.writer = Some(0)


\* ===================================================== claims, heartbeat
\* the loop thread ends a tick in this step
TickEnds ==
    /\ nodePc = "running"
    /\ thr'["main"].pc = "idle"
    /\ thr["main"].pc \in {"idle", "started"}
    /\ <<clock, story, outbox, nodeObs, thr>>' # <<clock, story, outbox, nodeObs, thr>>

\* the health messages in a sequence of published messages
HealthIn(msgs) == {i \in 1..Len(msgs) : msgs[i].topic = "health"}

\* C21: a tick ends with one health message {node_id, role, ts: now}
\* exactly when now - last_heartbeat_ts >= 15 s, and then
\* last_heartbeat_ts = now; consecutive heartbeats are at least 15 s apart,
\* and between ticks less than 15 s have passed since the last heartbeat.
C21_HeartbeatEvery15s ==
    /\ [](nodeObs.last_beat # None =>
            story.last_heartbeat_ts = nodeObs.last_beat[1])
    /\ [](nodePc = "running" /\ thr["main"].pc = "idle" =>
            clock - story.last_heartbeat_ts < HEARTBEAT_INTERVAL_SECONDS)
    /\ [][TickEnds =>
            IF clock' - story.last_heartbeat_ts >= HEARTBEAT_INTERVAL_SECONDS
            THEN /\ Cardinality(HealthIn(outbox')) = 1
                 /\ \A i \in HealthIn(outbox') :
                       outbox'[i] = HealthMsg(config.role, clock')
                 /\ story'.last_heartbeat_ts = clock'
                 /\ nodeObs.last_beat # None =>
                      clock' >= nodeObs.last_beat[1]
                                   + HEARTBEAT_INTERVAL_SECONDS
            ELSE /\ HealthIn(outbox') = {}
                 /\ story'.last_heartbeat_ts = story.last_heartbeat_ts]_vars

\* a second heartbeat is published exactly 15 s after the first, at the
\* end of a tick that also published a trigger
C21_Witness ==
    /\ nodeObs.last_beat = Some(30)
    /\ Len(outbox) = 2
    /\ outbox[1].topic = "trigger"
    /\ outbox[2] = HealthMsg("whisper", 30)



\* ============================================ dashboard (hub/dashboard_app.py)

\* create_app lines 94-124: the context gets a NarrativeState of its own;
\* with require_basic_auth the credentials come from the environment, and
\* create_app raises when they are missing
DashCreate(require_basic_auth, env_set) ==
    /\ dash.pc = "none"
    /\ IF require_basic_auth /\ ~env_set
       THEN UNCHANGED dash
       ELSE dash' = [dash EXCEPT
                !.pc = "serving",
                !.credentials =
                    IF require_basic_auth
                    THEN Some([username |-> "admin", password |-> "secret"])
                    ELSE None,
                !.triggered_whispers = {},
                !.unlocked = FALSE]
    /\ UNCHANGED <<narrVars, obsVars, hubPc, conn, subscriptions, net, http,
                   ack_events, evSet, ack_lock, log, retained, triggersIn,
                   acksIn, resets, pushes, pubFailed, everRaced, nodeVars,
                   csvVars, storeVars, contentVars, analyticsVars,
                   runtimeVars, wireVars>>

\* hmac.compare_digest on two str: TypeError when either holds a character
\* outside ASCII
compare_digest(a, b) ==
    IF a \in NonAscii \/ b \in NonAscii THEN "TypeError"
    ELSE IF a = b THEN "true" ELSE "false"

\* the wrapper of require_auth, lines 135-146: "call" the view, answer
\* "401", or "raise" out of the wrapper
require_auth(expected, auth) ==
    IF expected = None THEN "call"
    ELSE IF auth = None THEN "401"
    ELSE LET u == compare_digest(auth[1].username, expected[1].username) IN
         IF u = "TypeError" THEN "raise"
         ELSE IF u = "false" THEN "401"
         ELSE LET p == compare_digest(auth[1].password,
                                      expected[1].password) IN
              IF p = "TypeError" THEN "raise"
              ELSE IF p = "false" THEN "401"
              ELSE "call"

\* _auth_required_response, lines 392-395
auth_required_response(route) ==
    [route |-> route, status |-> 401, www_authenticate |-> Realm,
     ran |-> FALSE, body |-> None]

\* Flask's answer to an exception that leaves a view
internal_server_error(route) ==
    [route |-> route, status |-> 500, www_authenticate |-> None,
     ran |-> FALSE, body |-> None]

\* the view functions, lines 164-387, on a well-formed request: the answer
\* and the context's narrative state afterwards.  found: the transcript
\* file exists under the pack's directory
view(route, d, found) ==
    LET ok(status, hdr, body) ==
            [route |-> route, status |-> status, www_authenticate |-> hdr,
             ran |-> TRUE, body |-> body]
    IN  CASE route = "/health" ->
                [d EXCEPT !.resp = ok(200, None, Some([ok |-> TRUE]))]
          [] route = "/transcripts" ->
                [d EXCEPT !.resp = ok(IF found THEN 200 ELSE 404, None, None)]
          [] route = "/api/state" ->
                [d EXCEPT !.resp =
                    ok(200, None,
                       Some(snapshot(d.unlocked, d.triggered_whispers)))]
          [] route = "/api/reset-state" ->
                LET r == reset(d.unlocked, d.triggered_whispers)
                IN  [d EXCEPT !.triggered_whispers = r.triggered,
                              !.unlocked = r.unlocked,
                              !.resp = ok(200, None,
                                          Some(snapshot(r.unlocked,
                                                        r.triggered)))]
          [] route = "/logout" ->
                [d EXCEPT !.resp = ok(302, Realm, None)]
          [] OTHER ->
                [d EXCEPT !.resp = ok(200, None, None)]

\* one request served by the app: routing, the wrapper, the view
Request(route, auth, found) ==
    /\ dash.pc = "serving"
    /\ LET outcome == IF route \in ProtectedRoutes
                      THEN require_auth(dash.credentials, auth)
                      ELSE "call"
       IN  dash' = CASE outcome = "call" -> view(route, dash, found)
                     [] outcome = "401" ->
                            [dash EXCEPT !.resp = auth_required_response(route)]
                     [] OTHER ->
                            [dash EXCEPT !.resp = internal_server_error(route)]
    /\ UNCHANGED <<narrVars, obsVars, hubPc, conn, subscriptions, net, http,
                   ack_events, evSet, ack_lock, log, retained, triggersIn,
                   acksIn, resets, pushes, pubFailed, everRaced, nodeVars,
                   csvVars, storeVars, contentVars, analyticsVars,
                   runtimeVars, wireVars>>

\* the header carrying the configured pair
Configured == Some([username |-> "admin", password |-> "secret"])

\* the dashboard alone, with every route and every Authorization header
NextAuth ==
    \/ \E b \in BOOLEAN, e \in BOOLEAN : DashCreate(b, e)
    \/ \E route \in Routes, auth \in AuthHeaders, found \in BOOLEAN :
            Request(route, auth, found)

SpecAuth == Init /\ [][NextAuth]_vars

\* the hub's trigger ingest next to the dashboard's narrative endpoints
StateRoutes == {"/api/state", "/api/reset-state"}

NextDash ==
    \/ Lifecycle
    \/ \E n \in Nodes, p \in PayloadKinds : OnTrigger(n, p)
    \/ TriggerStep
    \/ \E b \in BOOLEAN : DashCreate(b, TRUE)
    \/ \E route \in StateRoutes, auth \in {None, Configured} :
            Request(route, auth, FALSE)

SpecDash == Init /\ [][NextDash]_vars



\* ================================= accessibility store (accessibility_store.py)

\* int(value): the number, a caught TypeError/ValueError, or an
\* OverflowError that nothing catches
to_int(v) ==
    CASE v.kind = "num" ->
            [status |-> "ok",
             n |-> IF v.n >= 0 THEN v.n \div 100 ELSE -((-v.n) \div 100)]
      [] v.kind = "str" ->
            IF v.s = "2" THEN [status |-> "ok", n |-> 2]
            ELSE [status |-> "caught", n |-> 0]
      [] v.kind = "huge" -> [status |-> "ok", n |-> 2000000000]
      [] v.kind = "inf" -> [status |-> "raised", n |-> 0]
      [] OTHER -> [status |-> "caught", n |-> 0]

\* float(value), in hundredths; is: "finite", "inf" or "nan"
to_float(v) ==
    CASE v.kind = "num" -> [status |-> "ok", is |-> "finite", n |-> v.n]
      [] v.kind = "str" ->
            IF v.s = "2" THEN [status |-> "ok", is |-> "finite", n |-> 200]
            ELSE IF v.s = "0.9"
            THEN [status |-> "ok", is |-> "finite", n |-> 90]
            ELSE [status |-> "caught", is |-> "finite", n |-> 0]
      [] v.kind = "inf" -> [status |-> "ok", is |-> "inf", n |-> 0]
      [] v.kind = "nan" -> [status |-> "ok", is |-> "nan", n |-> 0]
      [] v.kind = "huge" -> [status |-> "raised", is |-> "finite", n |-> 0]
      [] OTHER -> [status |-> "caught", is |-> "finite", n |-> 0]

\* min(a, b) and max(a, b) of Python on two numbers
py_min(a, b) == IF b < a THEN b ELSE a
py_max(a, b) == IF b > a THEN b ELSE a

\* _clamp_int, lines 135-140
clamp_int(value, minimum, maximum) ==
    LET c == to_int(value)
        number == IF c.status = "caught" THEN minimum ELSE c.n
    IN  [raised |-> c.status = "raised",
         n |-> py_max(minimum, py_min(maximum, number))]

\* _clamp_float, lines 143-148, in hundredths.  min(maximum, number) is
\* maximum for inf, and for nan as well: nan < maximum is false
clamp_float(value, minimum, maximum) ==
    LET c == to_float(value)
        number == IF c.status = "caught" THEN minimum ELSE c.n
    IN  [raised |-> c.status = "raised",
         n |-> IF c.status = "ok" /\ c.is # "finite"
               THEN py_max(minimum, maximum)
               ELSE py_max(minimum, py_min(maximum, number))]

\* dict.get(key, default)
get(v, default) == IF v = Absent THEN default ELSE v

\* _ensure_mapping, lines 129-132
ensure_mapping(candidate, empty) ==
    IF candidate = None THEN empty ELSE candidate[1]

\* _build_node_payload, lines 83-126: the four numeric fields, volume and
\* pace in hundredths; raised when a conversion's exception leaves it
build_node_payload(global_settings, node_override) ==
    LET default_buffer ==
            clamp_int(get(global_settings.mobility_buffer_ms, Num(80000)),
                      0, 60000)
        mobility_buffer_ms ==
            clamp_int(get(node_override.mobility_buffer_ms,
                          Num(default_buffer.n * 100)), 0, 60000)
        repeat == clamp_int(get(node_override.repeat, Num(0)), 0, 2)
        base_pace == IF global_settings.sensory_friendly THEN 90 ELSE 100
        pace == clamp_float(get(node_override.pace, Num(base_pace)), 85, 115)
        v0 == node_override.volume
        v1 == IF global_settings.sensory_friendly THEN py_min(70, 55) ELSE 70
        v2 == IF global_settings.quiet_hours THEN py_min(v1, 45) ELSE v1
        volume == clamp_float(IF v0 \in {Absent, Null} THEN Num(v2) ELSE v0,
                              0, 100)
    IN  [raised |-> \/ default_buffer.raised \/ mobility_buffer_ms.raised
                    \/ repeat.raised \/ pace.raised \/ volume.raised,
         volume |-> volume.n,
         pace |-> pace.n,
         mobility_buffer_ms |-> py_max(0, mobility_buffer_ms.n),
         repeat |-> repeat.n]

\* derive_runtime_payloads, lines 69-80, for the node set Nodes: the
\* payloads, or None when an exception leaves the call
derive_runtime_payloads(profiles) ==
    LET global_settings ==
            ensure_mapping(profiles.global, Global(Absent, FALSE, FALSE))
        payloads ==
            [n \in Nodes |->
                build_node_payload(
                    global_settings,
                    ensure_mapping(profiles.per_node_overrides[n],
                                   NoOverride))]
    IN  IF \E n \in Nodes : payloads[n].raised THEN None ELSE Some(payloads)

\* a caller derives the payloads of the loaded profiles
Derive ==
    /\ store.pc = "loaded"
    /\ store' = [store EXCEPT
            !.pc = "derived",
            !.out = derive_runtime_payloads(store.profiles),
            !.last = [NoStoreCall EXCEPT !.op = "derive"]]
    /\ UNCHANGED <<narrVars, obsVars, hubPc, conn, subscriptions, net, http,
                   ack_events, evSet, ack_lock, log, retained, triggersIn,
                   acksIn, resets, pushes, pubFailed, everRaced, nodeVars,
                   csvVars, dashVars, contentVars, analyticsVars,
                   runtimeVars, wireVars>>

\* the override mappings with one key holding any value and the other keys
\* all absent or all 1
FocusOverrides ==
    UNION {{Override(v, w, w, w), Override(w, v, w, w),
            Override(w, w, v, w), Override(w, w, w, v)} :
                v \in Values \cup {Absent}, w \in {Absent, Num(100)}}

DeriveProfiles ==
    [global : {None} \cup {Some(Global(b, sf, q)) :
                    b \in Values \cup {Absent}, sf \in BOOLEAN,
                    q \in BOOLEAN},
     per_node_overrides :
        {[n \in Nodes |-> IF n = 1 THEN o ELSE p] :
            o \in {None} \cup {Some(x) : x \in FocusOverrides},
            p \in {None, Some(Override(Num(300), Absent, Num(130),
                                       Str("loud")))}}]

\* the profiles as loaded from any file of the bounded family
InitDerive ==
    /\ required_fragments = 1 /\ triggered_whispers = {} /\ unlocked = FALSE
    /\ ObsInit /\ HubInit /\ NodeInit /\ CsvInit /\ DashInit /\ ContentInit
    /\ AnalyticsInit /\ RuntimeInit /\ WireInit
    /\ store \in {[pc |-> "loaded", profiles |-> pr, file |-> None,
                   out |-> None, last |-> NoStoreCall, calls |-> 0] :
                        pr \in DeriveProfiles}

NextDerive == Derive

SpecDerive == InitDerive /\ [][NextDerive]_vars


\* ------------------------------------------- set_per_node_override, the file

\* a mapping without the entries a predicate drops
normalise(o, dropped(_)) ==
    [k \in DOMAIN o |-> IF dropped(o[k]) THEN Absent ELSE o[k]]

\* an override that is stored even when nothing remains of it
set_per_node_override_keep_empty(profiles, node_id, overrides) ==
    LET normalised ==
            normalise(overrides, LAMBDA v : v \in {Null, Str("")})
    IN  [profiles EXCEPT !.per_node_overrides[node_id] = Some(normalised)]

\* set_per_node_override, lines 52-66: value not in (None, "")
set_per_node_override(profiles, node_id, overrides) ==
    LET normalised ==
            normalise(overrides, LAMBDA v : v \in {Null, Str("")})
    IN  [profiles EXCEPT !.per_node_overrides[node_id] =
            IF normalised # NoOverride THEN Some(normalised) ELSE None]

\* A YAML scalar as written in the file: its style and its characters (for
\* the digits of a number, isnum and the number in hundredths).
Scalar(style, text, isnum, n) ==
    [style |-> style, text |-> text, isnum |-> isnum, n |-> n]
NoScalar == Scalar("absent", "", FALSE, 0)

\* the plain scalar with the characters of string x
plain(x) ==
    CASE x = "2" -> Scalar("plain", "", TRUE, 200)
      [] x = "0.9" -> Scalar("plain", "", TRUE, 90)
      [] OTHER -> Scalar("plain", x, FALSE, 0)

\* yaml.safe_load on a scalar: quoted scalars are strings, plain ones go
\* through the implicit resolvers (null, int, float)
yaml_resolve(sc) ==
    CASE sc.style = "quoted" -> Str(sc.text)
      [] sc.isnum -> Num(sc.n)
      [] sc.text \in {"", "null", "~"} -> Null
      [] sc.text = ".inf" -> Inf
      [] sc.text = ".nan" -> NaN
      [] sc.text = "1e400digits" -> Huge
      [] OTHER -> Str(sc.text)

\* yaml.safe_dump on a value: a string is written plain only when the plain
\* scalar would be read back as a string
yaml_represent(v) ==
    CASE v.kind = "absent" -> NoScalar
      [] v.kind = "null" -> Scalar("plain", "null", FALSE, 0)
      [] v.kind = "num" -> Scalar("plain", "", TRUE, v.n)
      [] v.kind = "inf" -> Scalar("plain", ".inf", FALSE, 0)
      [] v.kind = "nan" -> Scalar("plain", ".nan", FALSE, 0)
      [] v.kind = "huge" -> Scalar("plain", "1e400digits", FALSE, 0)
      [] OTHER -> IF yaml_resolve(plain(v.s)).kind = "str"
                  THEN plain(v.s)
                  ELSE Scalar("quoted", v.s, FALSE, 0)

\* save_profiles, lines 29-34: the document written to the file
save_profiles(profiles) ==
    [global |-> profiles.global,
     per_node_overrides |->
        [n \in Nodes |->
            IF profiles.per_node_overrides[n] = None THEN None
            ELSE Some([k \in DOMAIN NoOverride |->
                        yaml_represent(profiles.per_node_overrides[n][1][k])])]]

\* load_profiles, lines 14-26, on the file (None: it does not exist)
load_profiles(file) ==
    IF file = None THEN DefaultProfiles
    ELSE [global |-> file[1].global,
          per_node_overrides |->
            [n \in Nodes |->
                IF file[1].per_node_overrides[n] = None THEN None
                ELSE Some([k \in DOMAIN NoOverride |->
                            IF file[1].per_node_overrides[n][1][k] = NoScalar
                            THEN Absent
                            ELSE yaml_resolve(
                                    file[1].per_node_overrides[n][1][k])])]]

\* the overrides an operator posts: three keys, each missing, null, empty,
\* a number or a string of digits
PostedValues == {Absent, Null, Str(""), Num(100), Str("2")}
PostedOverrides ==
    {Override(Absent, r, p, v) :
        r \in PostedValues, p \in PostedValues, v \in PostedValues}

SetOverride(n, o) ==
    /\ store.pc = "loaded"
    /\ store.calls < MaxStoreCalls
    /\ store' = [store EXCEPT
            !.pc = "set",
            !.calls = @ + 1,
            !.profiles = set_per_node_override(store.profiles, n, o),
            !.last = [op |-> "set", node |-> n, args |-> o,
                      pre |-> Some(store.profiles.per_node_overrides)]]
    /\ UNCHANGED <<narrVars, obsVars, hubPc, conn, subscriptions, net, http,
                   ack_events, evSet, ack_lock, log, retained, triggersIn,
                   acksIn, resets, pushes, pubFailed, everRaced, nodeVars,
                   csvVars, dashVars, contentVars, analyticsVars,
                   runtimeVars, wireVars>>

SaveProfiles ==
    /\ store.pc = "set"
    /\ store' = [store EXCEPT !.pc = "saved",
                              !.file = Some(save_profiles(store.profiles))]
    /\ UNCHANGED <<narrVars, obsVars, hubPc, conn, subscriptions, net, http,
                   ack_events, evSet, ack_lock, log, retained, triggersIn,
                   acksIn, resets, pushes, pubFailed, everRaced, nodeVars,
                   csvVars, dashVars, contentVars, analyticsVars,
                   runtimeVars, wireVars>>

\* DashboardContext.reload_accessibility
LoadProfiles ==
    /\ store.pc \in {"none", "saved"}
    /\ store' = [store EXCEPT !.pc = "loaded",
                              !.profiles = load_profiles(store.file)]
    /\ UNCHANGED <<narrVars, obsVars, hubPc, conn, subscriptions, net, http,
                   ack_events, evSet, ack_lock, log, retained, triggersIn,
                   acksIn, resets, pushes, pubFailed, everRaced, nodeVars,
                   csvVars, dashVars, contentVars, analyticsVars,
                   runtimeVars, wireVars>>

\* api_accessibility_override, lines 317-319: set, save, reload
NextOverride ==
    \/ \E n \in Nodes, o \in PostedOverrides : SetOverride(n, o)
    \/ SaveProfiles
    \/ LoadProfiles

SpecOverride == Init /\ [][NextOverride]_vars


\* ==================================== content manager (content_manager.py)

\* a lookup that never falls back to the default language
resolve_media_asset_exact(pack, node_id, language) ==
    pack.media[node_id][language]

\* _resolve_media_asset, lines 113-141: the asset, or None
resolve_media_asset(pack, node_id, language) ==
    LET asset == pack.media[node_id][language]
        node_meta == pack.nodes[node_id]
    IN  IF asset # None THEN asset
        ELSE IF node_meta = None THEN None
        ELSE pack.media[node_id][node_meta[1]]

\* get_fragment_for_node, lines 81-90, with a pack loaded
get_fragment_for_node(pack, files, node_id, language) ==
    LET asset == resolve_media_asset(pack, node_id, language)
    IN  IF asset = None THEN None
        ELSE IF asset[1] \notin files THEN None
        ELSE asset

GetFragment(n, l) ==
    /\ content.pc = "loaded"
    /\ content' = [content EXCEPT
            !.pc = "returned",
            !.node = n,
            !.language = l,
            !.out = get_fragment_for_node(content.pack, content.files, n, l)]
    /\ UNCHANGED <<narrVars, obsVars, hubPc, conn, subscriptions, net, http,
                   ack_events, evSet, ack_lock, log, retained, triggersIn,
                   acksIn, resets, pushes, pubFailed, everRaced, nodeVars,
                   csvVars, dashVars, storeVars, analyticsVars, runtimeVars,
                   wireVars>>

\* the packs load_pack can build over Nodes and Languages: a node is
\* declared with a default language or not, a pair has media or not
ContentPacks ==
    [nodes : [Nodes -> {None} \cup {Some(l) : l \in Languages}],
     media : {[n \in Nodes |-> [l \in Languages |->
                    IF AudioPath(n, l) \in recorded
                    THEN Some(AudioPath(n, l)) ELSE None]] :
                recorded \in SUBSET AudioPaths}]

\* any loaded pack, any set of audio files on disk
InitContent ==
    /\ required_fragments = 1 /\ triggered_whispers = {} /\ unlocked = FALSE
    /\ ObsInit /\ HubInit /\ NodeInit /\ CsvInit /\ DashInit /\ StoreInit
    /\ AnalyticsInit /\ RuntimeInit /\ WireInit
    /\ content \in {[pc |-> "loaded", pack |-> pk, files |-> fs,
                     node |-> 0, language |-> "", out |-> None] :
                        pk \in ContentPacks, fs \in SUBSET AudioPaths}

NextContent == \E n \in Nodes, l \in Languages : GetFragment(n, l)

SpecContent == InitContent /\ [][NextContent]_vars


\* ================================== summarize_events (logging_utils.py)

\* the loop of lines 133-154 over the rows read: the three accumulators
\* and the timestamps parsed from fragment_triggered rows
RECURSIVE summarize_loop(_, _)
summarize_loop(rows, acc) ==
    IF rows = <<>> THEN acc
    ELSE LET row == Head(rows)
             next ==
                CASE row.event = "fragment_triggered" ->
                        [acc EXCEPT
                            !.by_node[row.node_id] = @ + 1,
                            !.trigger_timestamps =
                                IF row.timestamp = "unparseable" THEN @
                                ELSE Append(@, row.timestamp)]
                  [] row.event = "heartbeat_received" ->
                        [acc EXCEPT !.heartbeat_by_node[row.node_id] = @ + 1]
                  [] row.event = "narrative_unlocked" ->
                        [acc EXCEPT !.narrative_unlocks = @ + 1]
                  [] OTHER -> acc
         IN  summarize_loop(Tail(rows), next)

\* sum(by_node.values())
RECURSIVE sum_values(_, _)
sum_values(d, keys) ==
    IF keys = {} THEN 0
    ELSE LET k == CHOOSE x \in keys : TRUE
         IN  d[k] + sum_values(d, keys \ {k})

\* list.sort() on datetimes raises TypeError when it has to compare one
\* without offset to one with an offset
sort_raises(timestamps) ==
    /\ Len(timestamps) >= 2
    /\ \E i, j \in 1..Len(timestamps) : timestamps[i] # timestamps[j]

\* summarize_events, lines 110-179, on the rows of the latest file: the
\* summary, or None when an exception leaves the call.  completion_rate is
\* the fraction num/den.
summarize_events(rows) ==
    LET acc == summarize_loop(rows,
                    [by_node |-> [n \in Nodes |-> 0],
                     heartbeat_by_node |-> [n \in Nodes |-> 0],
                     narrative_unlocks |-> 0,
                     trigger_timestamps |-> <<>>])
        total_triggers == sum_values(acc.by_node, Nodes)
        completion_rate ==
            IF total_triggers > 0
            THEN IF acc.narrative_unlocks >= total_triggers
                 THEN [num |-> 1, den |-> 1]
                 ELSE [num |-> acc.narrative_unlocks, den |-> total_triggers]
            ELSE [num |-> 0, den |-> 1]
    IN  IF sort_raises(acc.trigger_timestamps) THEN None
        ELSE Some([by_node |-> acc.by_node,
                   heartbeat_by_node |-> acc.heartbeat_by_node,
                   narrative_unlocks |-> acc.narrative_unlocks,
                   total_triggers |-> total_triggers,
                   completion_rate |-> completion_rate])

\* one more row in the latest log file, written by anyone
AppendRow(row) ==
    /\ analytics.pc = "writing"
    /\ Len(analytics.rows) < MaxRows
    /\ analytics' = [analytics EXCEPT !.rows = Append(@, row)]
    /\ UNCHANGED <<narrVars, obsVars, hubPc, conn, subscriptions, net, http,
                   ack_events, evSet, ack_lock, log, retained, triggersIn,
                   acksIn, resets, pushes, pubFailed, everRaced, nodeVars,
                   csvVars, dashVars, storeVars, contentVars, runtimeVars,
                   wireVars>>

Summarize ==
    /\ analytics.pc = "writing"
    /\ analytics' = [analytics EXCEPT
            !.pc = "summarized",
            !.out = summarize_events(analytics.rows)]
    /\ UNCHANGED <<narrVars, obsVars, hubPc, conn, subscriptions, net, http,
                   ack_events, evSet, ack_lock, log, retained, triggersIn,
                   acksIn, resets, pushes, pubFailed, everRaced, nodeVars,
                   csvVars, dashVars, storeVars, contentVars, runtimeVars,
                   wireVars>>

NextAnalytics ==
    \/ \E row \in LogRows : AppendRow(row)
    \/ Summarize

SpecAnalytics == Init /\ [][NextAnalytics]_vars


\* ============================= _on_message -> _handle_health (hub_listener.py)

\* the network thread after an exception left a callback: paho re-raises
\* it and the loop thread ends
NetDead == [NetIdle EXCEPT !.pc = "dead"]

\* line 190: message.payload.decode("utf-8") raises UnicodeDecodeError
decode_error(p) == p.kind = "undecodable"

\* lines 206-209 raise something other than JSONDecodeError: data.get on a
\* value that is not a dict, datetime.fromtimestamp on a number out of range
health_raises(p) ==
    \/ p.kind = "nonobject"
    \/ p.kind = "object" /\ p.ts_is = "out_of_range"

\* a health timestamp that ignores the payload's ts
health_timestamp_wall(p, now) == now

\* lines 204-209: the payload's ts when it is a number, else the wall clock
health_timestamp(p, now) ==
    IF p.kind = "object" /\ p.ts_is = "number" THEN p.ts ELSE now

\* HubRuntimeState.update_health, lines 44-46
update_health(last_seen, node_id, timestamp) ==
    [last_seen EXCEPT ![node_id] = Some(timestamp)]

\* a message on health/<n> with payload p, at wall-clock time now
OnHealth(n, p, now) ==
    /\ net.pc = "idle"
    /\ "health" \in subscriptions
    /\ runtime.healthIn < MaxHealth
    /\ now >= runtime.wall
    /\ IF decode_error(p)
       THEN /\ net' = NetDead
            /\ runtime' = [runtime EXCEPT !.healthIn = @ + 1, !.wall = now]
            /\ UNCHANGED log
       ELSE IF p.kind = "invalid"
       THEN /\ log' = record_event(log, "heartbeat_received", n,
                                   "invalid_json")
            /\ runtime' = [runtime EXCEPT !.healthIn = @ + 1, !.wall = now]
            /\ UNCHANGED net
       ELSE IF health_raises(p)
       THEN /\ net' = NetDead
            /\ runtime' = [runtime EXCEPT !.healthIn = @ + 1, !.wall = now]
            /\ UNCHANGED log
       ELSE /\ runtime' = [runtime EXCEPT
                    !.healthIn = @ + 1,
                    !.wall = now,
                    !.last_seen = update_health(@, n,
                                                health_timestamp(p, now))]
            /\ log' = record_event(log, "heartbeat_received", n, "json")
            /\ UNCHANGED net
    /\ UNCHANGED <<narrVars, obsVars, hubPc, conn, subscriptions, http,
                   ack_events, evSet, ack_lock, retained, triggersIn,
                   acksIn, resets, pushes, pubFailed, everRaced, nodeVars,
                   csvVars, dashVars, storeVars, contentVars, analyticsVars,
                   wireVars>>

\* a message on trigger/<n> whose bytes are not UTF-8: line 190 raises
\* before the handler is chosen
OnTriggerUndecodable(n) ==
    /\ net.pc = "idle"
    /\ "trigger" \in subscriptions
    /\ triggersIn < MaxTriggers
    /\ triggersIn' = triggersIn + 1
    /\ net' = NetDead
    /\ UNCHANGED <<narrVars, obsVars, hubPc, conn, subscriptions, http,
                   ack_events, evSet, ack_lock, log, retained, acksIn,
                   resets, pushes, pubFailed, everRaced, nodeVars, csvVars,
                   dashVars, storeVars, contentVars, analyticsVars,
                   runtimeVars, wireVars>>

\* the ingest side of the hub: heartbeats and triggers
NextHealth ==
    \/ Lifecycle
    \/ \E n \in Nodes, p \in HealthPayloads, now \in 0..MaxWall :
            OnHealth(n, p, now)
    \/ \E n \in Nodes, p \in PayloadKinds : OnTrigger(n, p)
    \/ \E n \in Nodes : OnTriggerUndecodable(n)
    \/ TriggerStep

SpecHealth == Init /\ [][NextHealth]_vars

\* ========================================================= claims, dashboard

\* the request answered 401 with the Basic challenge and ran no view
Refused(route) ==
    /\ dash'.resp = auth_required_response(route)
    /\ dash'.triggered_whispers = dash.triggered_whispers
    /\ dash'.unlocked = dash.unlocked

\* C22: with basic auth enabled, a request to any route other than /health
\* and /transcripts/... that does not carry the configured username and
\* password is answered 401 with WWW-Authenticate: Basic realm="EchoTrace"
\* and runs nothing of the view; /health answers {ok: true} whatever the
\* request carries.
C22_AuthRequired ==
    [][\A route \in Routes, auth \in AuthHeaders, found \in BOOLEAN :
          Request(route, auth, found) /\ dash.credentials # None =>
            /\ route \in ProtectedRoutes /\ auth # Configured
                    => Refused(route)
            /\ route = "/health"
                    => /\ dash'.resp.status = 200
                       /\ dash'.resp.body = Some([ok |-> TRUE])]_vars

\* the same for requests whose header, if any, is plain ASCII
AuthRequired_Ascii ==
    [][\A route \in Routes, auth \in AuthHeaders, found \in BOOLEAN :
          /\ Request(route, auth, found)
          /\ dash.credentials # None
          /\ auth # None => /\ auth[1].username \notin NonAscii
                            /\ auth[1].password \notin NonAscii
          =>
            /\ route \in ProtectedRoutes /\ auth # Configured
                    => Refused(route)
            /\ route = "/health"
                    => /\ dash'.resp.status = 200
                       /\ dash'.resp.body = Some([ok |-> TRUE])]_vars


\* C23: the narrative endpoints act on the coordinator's narrative state: a
\* GET /api/state that is served returns the coordinator's snapshot, and a
\* POST /api/reset-state that is served leaves the coordinator's state
\* cleared, state/hub republished with the empty snapshot and one more
\* admin_action row in the event log.
C23_EndpointsActOnCoordinator ==
    [][\A route \in StateRoutes, auth \in AuthHeaders :
          Request(route, auth, FALSE) /\ dash'.resp.status = 200 =>
            /\ route = "/api/state" =>
                    dash'.resp.body =
                        Some(snapshot(unlocked, triggered_whispers))
            /\ route = "/api/reset-state" =>
                    /\ triggered_whispers' = {}
                    /\ unlocked' = FALSE
                    /\ retained' = <<snapshot(FALSE, {})>>
                    /\ Cardinality(RowsOf(log', Len(log'), "admin_action", 0))
                         = Cardinality(RowsOf(log, Len(log),
                                              "admin_action", 0)) + 1]_vars


\* ============================================ claims, accessibility store

\* C24: whatever the profiles hold, derive_runtime_payloads returns, for
\* every node of the node set, a payload with volume in [0, 1], pace in
\* [0.85, 1.15], mobility_buffer_ms in [0, 60000] and repeat in {0, 1, 2}.
C24_PayloadsInRange ==
    store.pc = "derived" =>
        /\ store.out # None
        /\ \A n \in Nodes :
            /\ store.out[1][n].volume \in 0..100
            /\ store.out[1][n].pace \in 85..115
            /\ store.out[1][n].mobility_buffer_ms \in 0..60000
            /\ store.out[1][n].repeat \in {0, 1, 2}

\* the same for profiles without an infinite float or an int beyond the
\* range of float
IsFiniteProfile(pr) ==
    LET bad(v) == v.kind \in {"inf", "huge"}
        badO(o) ==
            o # None /\ (\/ bad(o[1].mobility_buffer_ms) \/ bad(o[1].repeat)
                         \/ bad(o[1].pace) \/ bad(o[1].volume))
    IN  /\ pr.global # None => ~bad(pr.global[1].mobility_buffer_ms)
        /\ \A n \in Nodes : ~badO(pr.per_node_overrides[n])

PayloadsInRange_Finite ==
    (store.pc = "derived" /\ IsFiniteProfile(store.profiles)) =>
        /\ store.out # None
        /\ \A n \in Nodes :
            /\ store.out[1][n].volume \in 0..100
            /\ store.out[1][n].pace \in 85..115
            /\ store.out[1][n].mobility_buffer_ms \in 0..60000
            /\ store.out[1][n].repeat \in {0, 1, 2}


\* the entries of o whose value is neither null nor the empty string
Kept(o) ==
    [k \in DOMAIN o |-> IF o[k] = Null \/ o[k] = Str("") THEN Absent ELSE o[k]]

\* node n holds exactly the kept entries of the last call, no entry at all
\* when none is kept, and the other nodes hold what they held before it
StoredAsPosted ==
    LET n == store.last.node
        kept == Kept(store.last.args)
        entry == store.profiles.per_node_overrides
    IN  /\ entry[n] = IF \E k \in DOMAIN kept : kept[k] # Absent
                      THEN Some(kept) ELSE None
        /\ \A m \in Nodes \ {n} : entry[m] = store.last.pre[1][m]

\* C25: after set_per_node_override(n, o), node n's entry holds exactly the
\* entries of o whose value is neither null nor the empty string; when none
\* remain the entry is removed; the other nodes' overrides are unchanged;
\* and all of this is still so after the profiles are saved and loaded.
C25_OverrideStoredOrRemoved ==
    (store.last.op = "set" /\ store.pc \in {"set", "saved", "loaded"})
        => StoredAsPosted

\* node 1 held the override {pace: "2", volume: 1} and a second call posted
\* only a null and an empty string for it: after the save and the reload
\* node 1 has no entry
C25_Witness ==
    /\ store.pc = "loaded"
    /\ store.last.op = "set"
    /\ store.last.node = 1
    /\ store.last.args = Override(Absent, Null, Str(""), Absent)
    /\ store.last.pre[1][1] =
            Some(Override(Absent, Absent, Str("2"), Num(100)))
    /\ store.profiles.per_node_overrides[1] = None
    /\ store.file[1].per_node_overrides[1] = None


\* ================================================ claims, content manager

\* C27: get_fragment(node, language) returns the asset recorded for exactly
\* (node, language) when there is one; otherwise the asset recorded for the
\* node's default language when the node is declared and that record
\* exists; otherwise nothing; and nothing whenever the audio file of the
\* asset so resolved is not on disk.
C27_FragmentWithFallback ==
    content.pc = "returned" =>
        LET n == content.node
            media == content.pack.media[n]
            declared == content.pack.nodes[n]
            exact == media[content.language]
            resolved ==
                IF exact # None THEN exact
                ELSE IF declared # None /\ media[declared[1]] # None
                THEN media[declared[1]]
                ELSE None
        IN  /\ resolved = None => content.out = None
            /\ resolved # None /\ resolved[1] \notin content.files
                    => content.out = None
            /\ resolved # None /\ resolved[1] \in content.files
                    => content.out = resolved

\* node 1 has no Spanish record, its default language is English, and the
\* English file is on disk: the Spanish request returns the English asset
C27_Witness ==
    /\ content.pc = "returned"
    /\ content.node = 1
    /\ content.language = "es"
    /\ content.pack.media[1]["es"] = None
    /\ content.pack.nodes[1] = Some("en")
    /\ content.out = Some(AudioPath(1, "en"))


\* =================================================== claims, summarizer

\* the rows of the file with the given event
RowsWith(event) ==
    {i \in 1..Len(analytics.rows) : analytics.rows[i].event = event}

\* the summary's counts and rate are those of the file's rows
SummaryMatchesRows ==
    LET out == analytics.out[1]
        triggers == Cardinality(RowsWith("fragment_triggered"))
        unlocks == Cardinality(RowsWith("narrative_unlocked"))
        rate == out.completion_rate
    IN  /\ out.total_triggers = sum_values(out.by_node, Nodes)
        /\ out.total_triggers = triggers
        /\ out.narrative_unlocks = unlocks
        /\ 0 <= rate.num /\ rate.num <= rate.den /\ rate.den > 0
        /\ triggers = 0 => rate.num = 0
        /\ triggers > 0 /\ unlocks >= triggers => rate.num = rate.den
        /\ triggers > 0 /\ unlocks < triggers =>
                rate.num * triggers = unlocks * rate.den

\* C26: whatever the latest log file holds, summarize() returns a summary
\* whose total_triggers is the sum of the by_node counts and the number of
\* fragment_triggered rows, whose narrative_unlocks is the number of
\* narrative_unlocked rows, and whose completion_rate is
\* min(1, narrative_unlocks / total_triggers), in [0, 1], and 0 when there
\* is no trigger.
C26_SummaryCounts ==
    analytics.pc = "summarized" =>
        analytics.out # None /\ SummaryMatchesRows

\* the same for files whose trigger rows carry the timestamps the event
\* logger writes (with the UTC offset), or text that does not parse
SummaryCounts_LoggerFiles ==
    (/\ analytics.pc = "summarized"
     /\ \A i \in RowsWith("fragment_triggered") :
            analytics.rows[i].timestamp # "naive")
        => analytics.out # None /\ SummaryMatchesRows


\* ================================================ claims, hub health ingest

\* heartbeats the handler is meant to accept: the empty payload or an object
WellFormedHealth == {p \in HealthPayloads : p.kind \in {"empty", "object"}}

\* a well-formed heartbeat of node n overwrites last_seen[n] with its ts
\* when that is a number and with the wall clock otherwise
Overwritten(n, p, now) ==
    runtime'.last_seen[n] =
        Some(IF p.ts_is \in {"number", "out_of_range"} THEN p.ts ELSE now)

\* C28: every well-formed heartbeat of a node overwrites its last_seen, with
\* the payload's ts when it is numeric and with the hub's wall clock
\* otherwise; last_seen of a node never moves backwards, whatever the order
\* of the heartbeats delivered; and an entry, once created, is never removed.
C28_LastSeenMonotone ==
    [][\A n \in Nodes :
          /\ \A p \in WellFormedHealth, now \in 0..MaxWall :
                OnHealth(n, p, now) => Overwritten(n, p, now)
          /\ runtime.last_seen[n] # None =>
                /\ runtime'.last_seen[n] # None
                /\ runtime'.last_seen[n][1] >= runtime.last_seen[n][1]]_vars

\* what remains true: a heartbeat whose ts, if a number, is one that
\* datetime.fromtimestamp accepts overwrites last_seen as described, and
\* entries are never removed
LastSeenOverwritten ==
    [][\A n \in Nodes :
          /\ \A p \in WellFormedHealth, now \in 0..MaxWall :
                OnHealth(n, p, now) /\ p.ts_is # "out_of_range"
                    => Overwritten(n, p, now)
          /\ runtime.last_seen[n] # None
                => runtime'.last_seen[n] # None]_vars

\* the message was recorded as one event of the given kind with detail
\* invalid_json and nothing else happened to it
RecordedAndDropped(event, n) ==
    /\ log' = Append(log, [event |-> event, node |-> n,
                           detail |-> "invalid_json"])
    /\ net'.pc = "idle"
    /\ runtime'.last_seen = runtime.last_seen
    /\ UNCHANGED <<narrVars, obsVars, hubPc, conn, subscriptions, http,
                   ack_events, evSet, ack_lock, retained, triggersIn,
                   acksIn, resets, pushes, pubFailed, everRaced, nodeVars,
                   csvVars, dashVars, storeVars, contentVars, analyticsVars,
                   wireVars>>

\* C29: a health or trigger message whose payload is not valid JSON adds
\* one event of the topic's kind (heartbeat_received, fragment_triggered)
\* with detail invalid_json and is dropped: last_seen, the narrative state
\* and the retained state/hub stay as they are and no narrative_unlocked
\* event is recorded.
C29_InvalidJsonDropped ==
    [][\A n \in Nodes :
          /\ \A k \in {"undecodable", "invalid"}, now \in 0..MaxWall :
                OnHealth(n, HealthPayload(k, "absent", 0), now)
                    => RecordedAndDropped("heartbeat_received", n)
          /\ OnTrigger(n, "invalid") \/ OnTriggerUndecodable(n)
                    => RecordedAndDropped("fragment_triggered", n)]_vars

\* the same for payloads that are text (UTF-8) but not JSON
InvalidJsonDropped_Text ==
    [][\A n \in Nodes :
          /\ \A now \in 0..MaxWall :
                OnHealth(n, HealthPayload("invalid", "absent", 0), now)
                    => RecordedAndDropped("heartbeat_received", n)
          /\ OnTrigger(n, "invalid")
                    => RecordedAndDropped("fragment_triggered", n)]_vars

\* C30: a health or trigger message whose payload is valid JSON but not an
\* object is handled without an exception leaving the handler, so that the
\* network thread goes on to process later messages.  (_handle_ack never
\* parses its payload.)
C30_NonObjectRecovered ==
    [][\A n \in Nodes :
          /\ \A now \in 0..MaxWall :
                OnHealth(n, HealthPayload("nonobject", "absent", 0), now)
                    => net'.pc # "dead"
          /\ OnTrigger(n, "nonobject") => net'.pc # "dead"]_vars

\* the trigger half alone
NonObjectTriggerRecovered ==
    [][\A n \in Nodes : OnTrigger(n, "nonobject") => net'.pc = "t_add"]_vars


\* ================================================== claims, story start
\* _start_story returns in this step, after line 513
StoryStarts(th) == thr[th].pc = "started" /\ thr'[th].pc = "idle"

\* the trigger messages in a sequence of published messages
TriggerIn(msgs) == {i \in 1..Len(msgs) : msgs[i].topic = "trigger"}

\* what a step does to the story fields and to trigger/<node>: a start
\* that takes effect sets all of them, every other step none
StartTakesEffect ==
    /\ (TriggerIn(outbox') # {} /\ thr' # thr)
           <=> \E th \in Threads : StoryStarts(th)
    /\ \A th \in Threads : StoryStarts(th) =>
           /\ story'.story_active
           /\ story'.cooldown_until =
                  thr[th].now + RETRIGGER_COOLDOWN_SECONDS
           /\ story'.story_reset_time = thr[th].now + STORY_RESET_SECONDS
           /\ Cardinality(TriggerIn(outbox')) = 1
           /\ outbox'[1] = TriggerMsg(config.role, thr[th].now)
    /\ (nodePc = "running" /\ \A th \in Threads : ~StoryStarts(th)) =>
           /\ story'.cooldown_until = story.cooldown_until
           /\ story'.story_reset_time = story.story_reset_time
           /\ story'.story_active /\ ~story.story_active =>
                  \E th \in Threads : thr'[th].pc = "started"

\* C31: a trigger/<node> message is published exactly when start-story
\* takes effect: in that step story_active is true, cooldown_until is
\* now + 5 s, story_reset_time is now + 8 s and one trigger
\* {node_id, role, ts: now} is published; a rejected call, or one whose
\* fragment file is missing, changes none of the three and publishes
\* nothing.
C31_TriggerIffStoryStarts == [][StartTakesEffect]_vars

\* the same for the starts of a whisper node, which its loop thread makes
TriggerIffStoryStarts_Whisper ==
    [][config.role = "whisper" => StartTakesEffect]_vars


\* run_once returns in this step while the MQTT thread starts no story
TickAfterStart ==
    /\ \/ /\ \E r \in Readings, t \in 0..MaxTime : Tick(r, t)
          /\ thr'["main"].pc = "idle"
       \/ StoryFinish("main")
    /\ thr["mqtt"].site # "state"
    /\ nodeObs'.last_trigger # None

\* story_active after a tick at time clock', the most recent start being
\* at nodeObs.last_trigger
ActiveForResetSeconds ==
    TickAfterStart =>
        story'.story_active =
            (clock' < nodeObs'.last_trigger[1] + STORY_RESET_SECONDS)

\* C32: after the most recent story start at time t, story_active is true
\* after every tick with now < t + 8 s and false after every tick with
\* now >= t + 8 s, the first of which clears it.
C32_ActiveUntilReset == [][ActiveForResetSeconds]_vars

\* the same for a whisper node
ActiveUntilReset_Whisper ==
    [][config.role = "whisper" => ActiveForResetSeconds]_vars


\* ============================================== claims, clamped settings
\* volumes (hundredths), buffers, repeats and paces (hundredths) inside
\* and outside the ranges of the data model
SettingVolumes == {0, 100, 150}
SettingBuffers == {0, 60000, 70000}
SettingRepeats ==
    {Setting("number", v) : v \in {0, 2, 5}}
    \cup {Setting("other", 0), Setting("inf", 0)}
SettingPaces ==
    {Setting("number", v) : v \in {50, 100, 130}}
    \cup {Setting("other", 0), Setting("nan", 0)}

\* an accessibility group that holds repeat and pace
WithRepeatPace(g, r, p) ==
    [k \in DOMAIN g \cup {"repeat", "pace"} |->
        IF k = "repeat" THEN r ELSE IF k = "pace" THEN p ELSE g[k]]

\* config payloads with one setting, or with repeat and pace
SettingPayloads ==
    {ConfigPayload("object", AudioGroup("mapping", "absent", "number", v),
                   ProximityAbsent, AccessibilityAbsent) :
        v \in SettingVolumes}
    \cup {ConfigPayload("object", AudioAbsent, ProximityAbsent,
                        AccessibilityGroup("mapping", "number", b, "absent")) :
            b \in SettingBuffers}
    \cup {ConfigPayload("object", AudioAbsent, ProximityAbsent,
              WithRepeatPace(
                  AccessibilityGroup("mapping", "absent", 0, "absent"),
                  r, p)) :
            r \in SettingRepeats, p \in SettingPaces}

\* a whisper node that receives config messages
NextSettings ==
    \/ NodeBoot("whisper", 0, TRUE, 100)
    \/ \E m \in SettingPayloads : ConfigDispatch(m)
    \/ ConfigStep
    \/ ApplyStep("mqtt")

SpecSettings == Init /\ [][NextSettings]_vars

\* C33: after any sequence of config messages the settings of the node
\* are in the ranges of the data model: volume in [0, 1],
\* mobility_buffer_ms in [0, 60000], repeat in {0, 1, 2}, pace in
\* [0.85, 1.15].
C33_SettingsInRange ==
    /\ config.volume \in 0..100
    /\ config.mobility_buffer_ms \in 0..60000
    /\ config.repeat \in {0, 1, 2}
    /\ config.pace \in 85..115

\* the ranges that the updates do keep
RepeatPaceInRange ==
    /\ config.mobility_buffer_ms >= 0
    /\ config.repeat \in {0, 1, 2}
    /\ config.pace \in 85..115


\* ================================================ claims, waiter and ack
\* push t has published, waits, and its Event has not been set
AwaitsAck(t) == http[t].pc = "p_wait" /\ http[t].ev \notin evSet

\* an ack for the node of push t, whenever ingested, finds t's waiter:
\* it is in the table, or the ack handler has just popped it
WaiterFound(t) ==
    \/ ack_events[http[t].node] = http[t].ev
    \/ net.pc = "a_set" /\ net.ev = http[t].ev

\* C34: push_node_config registers its waiter before it publishes, so an
\* ack ingested at any moment after the publish of a push (that no later
\* push to the node has replaced) finds the push's waiter, and a push
\* returns true when such an ack was handled before its wait expired.
C34_AckAfterPublishFindsWaiter ==
    /\ [][\A t \in Http : PushRegister(t) =>
            /\ ~http'[t].published
            /\ ack_events'[http[t].node] = http'[t].ev]_vars
    /\ [](\A t \in Http :
            AwaitsAck(t) /\ ~http[t].replaced => WaiterFound(t))
    /\ [][\A t \in Http :
            PushReturns(t) /\ http[t].published /\ http[t].ackSeen
                /\ ~http[t].replaced => http'[t].result]_vars

\* the same for a push that no other push to the node overlaps
AckAfterPublishFindsWaiter_Solo ==
    /\ [][\A t \in Http : PushRegister(t) =>
            /\ ~http'[t].published
            /\ ack_events'[http[t].node] = http'[t].ev]_vars
    /\ [](\A t \in Http : AwaitsAck(t) /\ http[t].solo => WaiterFound(t))
    /\ [][\A t \in Http :
            PushReturns(t) /\ http[t].published /\ http[t].ackSeen
                /\ http[t].solo => http'[t].result]_vars


\* ================================================== claims, the ack lock
\* the position of the thread when it holds _ack_lock: before the one
\* statement of a "with self._ack_lock" block
HoldsAtDictOp ==
    /\ ack_lock = NetThread => net.pc = "a_pop"
    /\ \A t \in Http : ack_lock = HttpThread(t) => http[t].pc \in PushLockPcs

\* the only step of a thread that holds the lock changes the waiter table
\* and releases the lock: no publish, no event-log row, no wait
HolderReleases ==
    /\ ack_lock = NetThread /\ net' # net =>
           ack_lock' = Free /\ log' = log /\ evSet' = evSet
    /\ \A t \in Http : ack_lock = HttpThread(t) /\ http'[t] # http[t] =>
           /\ ack_lock' = Free /\ log' = log
           /\ http'[t].pc \in {"p_pub", "idle"}
           /\ ~http'[t].published

\* a step of the ack handler: one config_ack row at dispatch, then the
\* waiter of the node removed, then its Event set; no call of
\* push_node_config, no other state touched
AckOnlyRemovesAndSignals ==
    /\ net.pc \in AckPcs
    /\ net' # net \/ (ack_lock = Free /\ ack_lock' = NetThread)
    =>
        /\ net'.pc \in AckPcs \cup {"idle"}
        /\ log' = log
        /\ \A n \in Nodes : ack_events'[n] \in {ack_events[n], 0}
        /\ \A n \in Nodes \ {net.node} : ack_events'[n] = ack_events[n]
        /\ evSet \subseteq evSet'
        /\ evSet' \subseteq evSet \cup {net.ev}
        /\ \A t \in Http : http'[t].pc = http[t].pc
        /\ UNCHANGED <<narrVars, retained, pushes>>

\* no handler and no call in progress, and the lock is free
QuiescentFree == Quiescent /\ ack_lock = Free

\* C35: the network thread's handlers never call push_node_config, the
\* ack handler only removes and signals a waiter, _ack_lock is never held
\* during a publish, an event-log write or a wait, and every interleaving
\* of pushes and inbound acks runs to the end: all calls and handlers
\* return and the lock is free.
C35_CallbacksNeverBlock ==
    /\ [](net.pc \in AckPcs \cup {"idle"})
    /\ []HoldsAtDictOp
    /\ [][HolderReleases]_vars
    /\ [][AckOnlyRemovesAndSignals]_vars
    /\ <>[]QuiescentFree

\* the ack handler holds the lock while one push waits for it after its
\* timeout and another push waits for its ack
C35_Witness ==
    /\ ack_lock = NetThread
    /\ \E t, u \in Http :
        /\ t # u
        /\ http[t].pc = "p_popto"
        /\ http[u].pc = "p_wait"


\* =========================================== claims, narrative and mutex
\* the network thread is inside register_trigger, after line 25
InRegisterTrigger == net.pc \in {"t_cond", "t_set"}

\* an HTTP thread is inside NarrativeState.reset, after line 32
InReset == \E t \in Http : http[t].pc = "r_unl"

\* the step appends a narrative_unlocked row
RecordsUnlock ==
    /\ Len(log') = Len(log) + 1
    /\ log'[Len(log')].event = "narrative_unlocked"

\* every rising edge of unlocked is made by the trigger handler, which
\* remembers it, and narrative_unlocked is recorded only by a handler after
\* its own rising edge, once
RecordedOnlyOnRise ==
    /\ (~unlocked /\ unlocked') =>
           net.pc = "t_set" /\ ~net.rose /\ net'.rose
    /\ RecordsUnlock =>
           net.pc = "t_logunlock" /\ net.rose /\ net'.pc = "idle"

\* C36: the narrative state is accessed atomically, and under every
\* interleaving of reset_state with trigger ingest each rising edge of
\* unlocked is recorded as exactly one narrative_unlocked event, and no
\* narrative_unlocked is recorded without a rising edge.
C36_RisingEdgeRecordedOnce ==
    /\ [][RecordedOnlyOnRise]_vars
    /\ [][TriggerReturns /\ net.rose => RecordsUnlock]_vars
    /\ []~(InRegisterTrigger /\ InReset)

\* no narrative_unlocked without a rising edge, in every interleaving
NoUnlockRowWithoutRise == [][RecordedOnlyOnRise]_vars


\* =========================================== claims, whose ack it is
\* the ack handler sets an Event in this step
AckSets == net.pc = "a_set" /\ net'.pc = "idle" /\ net.ev # 0

\* C37: push_node_config(n, p) returns true only if node n has merged p:
\* the ack that sets a push's Event answers that push's own config
\* message, never an earlier push to the node that has timed out.
C37_TrueOnlyIfMerged ==
    /\ [][AckSets => wire.src = net.ev]_vars
    /\ [][\A t \in Http :
            PushReturns(t) /\ http'[t].result =>
                http[t].ev \in wire.merged]_vars

\* the same for a push that no other push to its node precedes or overlaps
TrueOnlyIfMerged_OnlyPush ==
    [][\A t \in Http :
         /\ PushReturns(t)
         /\ http'[t].result
         /\ http[t].solo
         /\ \A i \in 1..Len(log) :
                \/ log[i].node # http[t].node
                \/ log[i].event \notin {"config_push_ok", "config_push_timeout"}
         => http[t].ev \in wire.merged]_vars


\* ================================== the hub and the mystery node, joined
\* The hub ingests the triggers of whisper nodes and serves reset_state;
\* the broker carries its state/hub messages to the mystery node and that
\* node's trigger/<node> back to the hub.
WhisperNodes == Nodes \ {MysteryNode}

NextFinale ==
    \/ Lifecycle
    \/ \E n \in WhisperNodes : OnTrigger(n, "object")
    \/ OnNodeTrigger
    \/ TriggerStep
    \/ \E t \in Http : ResetClear(t)
    \/ \E t \in Http : ResetStep(t)
    \/ NodeBoot("mystery", 0, TRUE, 100)
    \/ NodeSubscribe
    \/ StateDeliver
    \/ StateHandle(0)
    \/ NodeStep

\* The paho network threads of the hub and of the node run every
\* dispatched handler to its end, the broker delivers what it has queued,
\* and a started reset_state call returns.
FinaleFairness ==
    /\ WF_vars(TriggerStep)
    /\ WF_vars(OnNodeTrigger)
    /\ WF_vars(StateDeliver)
    /\ WF_vars(StateHandle(0))
    /\ WF_vars(NodeStep)
    /\ \A t \in Http : WF_vars(ResetStep(t))

SpecFinale == Init /\ [][NextFinale]_vars /\ FinaleFairness

\* C38: every id in the hub's triggered set is the id of a whisper node:
\* the trigger/<node> of the mystery node never enters the set, and
\* unlocked rises only when the whisper ids alone reach the threshold,
\* including after a reset.
C38_OnlyWhispersCount ==
    /\ [](triggered_whispers \subseteq WhisperNodes)
    /\ [][~unlocked /\ unlocked' /\ MysteryNode \in triggered_whispers' =>
            Cardinality(triggered_whispers' \cap WhisperNodes)
                >= required_fragments]_vars

\* the mystery node's id has made unlocked rise
MysteryUnlocks ==
    /\ unlocked
    /\ triggered_whispers = {MysteryNode}
    /\ net.pc = "t_snapU" /\ net.rose /\ net.node = MysteryNode
NeverMysteryUnlocks == ~MysteryUnlocks


\* the trigger/<node> messages of the mystery node that the hub has
\* ingested, and those still with the broker
MysteryIngested ==
    Cardinality({i \in DOMAIN log : /\ log[i].event = "fragment_triggered"
                                     /\ log[i].node = MysteryNode})
MysteryTriggers == MysteryIngested + wire.trig

\* nothing in flight between the hub and the mystery node, and no handler
\* or call running on either side
ExchangeOver ==
    /\ wire.state = <<>> /\ wire.trig = 0
    /\ net.pc = "idle"
    /\ thr["mqtt"].pc = "idle"
    /\ \A t \in Http : http[t].pc = "idle"

\* C39: with no reset, the mystery node starts the finale at most once and
\* publishes at most one trigger/<node>; the state/hub messages it is sent
\* are at most one per whisper trigger, one for its own trigger and the
\* retained one; every behaviour ends with nothing in flight; and once the
\* exchange is over after the hub ingested the mystery node's trigger, the
\* finale has started exactly once.
C39_FeedbackLoopFinite ==
    /\ [](resets = 0 =>
            /\ nodeObs.run_starts <= 1
            /\ MysteryTriggers <= 1
            /\ nodeObs.stateIn <= triggersIn + 2)
    /\ <>[]ExchangeOver
    /\ [](resets = 0 /\ ExchangeOver /\ MysteryIngested > 0 =>
            /\ nodeObs.run_starts = 1
            /\ MysteryTriggers = 1
            /\ story.mystery_played)

\* the hub has republished state/hub for the mystery node's own trigger and
\* the node has read it with the latch set: the exchange is over after the
\* finale started once
C39_Witness ==
    /\ resets = 0
    /\ ExchangeOver
    /\ MysteryIngested = 1
    /\ nodeObs.run_starts = 1
    /\ nodeObs.stateIn >= 2
    /\ story.mystery_played


\* ============================ CsvEventLogger called from several threads
\* CsvEventLogger holds no lock (logging_utils.py 18-92).  The statements
\* of record_event and _ensure_writer are the steps of a caller, and the
\* steps of two callers interleave.  Lines written to a file object stay in
\* its buffer until flush() or close(); a file object that neither
\* _file_obj nor _writer refers to any more is closed by the interpreter,
\* which flushes it.
MaxRecords == 3

\* the directory after the buffer of file object o reached the disk
flushed_dir(dir, o) ==
    [dir EXCEPT ![o.date].lines = @ \o o.buf]

obj_closed(o) == [o EXCEPT !.closed = TRUE, !.buf = <<>>]

\* the open file objects that nothing refers to
unreferenced(lg) ==
    {i \in DOMAIN lg.objs :
        ~lg.objs[i].closed /\ i \notin {lg.file_obj, lg.writer}}

\* the interpreter closes the unreferenced file objects: <<logger, dir>>
RECURSIVE collected(_, _)
collected(lg, dir) ==
    IF unreferenced(lg) = {} THEN <<lg, dir>>
    ELSE LET i == CHOOSE j \in unreferenced(lg) :
                     \A k \in unreferenced(lg) : j <= k
         IN collected([lg EXCEPT !.objs[i] = obj_closed(@)],
                      flushed_dir(dir, lg.objs[i]))

\* the call of c leaves record_event by an exception
call_raises(lg, c) ==
    [lg EXCEPT !.call[c] = CallIdle, !.raised = @ + 1]

\* record_event, lines 31-32: the timestamp is taken
RecordStart(c) ==
    /\ event_logger.call[c].pc = "idle"
    /\ event_logger.started < MaxRecords
    /\ event_logger' =
         [event_logger EXCEPT
            !.call[c] = [CallIdle EXCEPT !.pc = "ensure", !.date = utc_date],
            !.due[utc_date] = @ + 1,
            !.started = @ + 1,
            !.overlap = @ \/ \E o \in Callers \ {c} :
                                 event_logger.call[o].pc # "idle"]
    /\ UNCHANGED <<narrVars, obsVars, hubPc, conn, subscriptions, net, http,
                   ack_events, evSet, ack_lock, log, retained, triggersIn,
                   acksIn, resets, pushes, pubFailed, everRaced, nodeVars,
                   utc_date, logs_dir, logger, csvObs, dashVars, storeVars,
                   contentVars, analyticsVars, runtimeVars, wireVars>>

\* _ensure_writer, lines 70-71: return when the writer serves the date
EnsureCheck(c) ==
    /\ event_logger.call[c].pc = "ensure"
    /\ event_logger' =
         [event_logger EXCEPT !.call[c].pc =
            IF /\ event_logger.current_date = Some(event_logger.call[c].date)
               /\ event_logger.writer # 0
            THEN "row" ELSE "close"]
    /\ UNCHANGED <<narrVars, obsVars, hubPc, conn, subscriptions, net, http,
                   ack_events, evSet, ack_lock, log, retained, triggersIn,
                   acksIn, resets, pushes, pubFailed, everRaced, nodeVars,
                   utc_date, logs_dir, logger, csvObs, dashVars, storeVars,
                   contentVars, analyticsVars, runtimeVars, wireVars>>

\* close, lines 51-60: the file object at hand is closed, the three fields
\* are set to None
EnsureClose(c) ==
    /\ event_logger.call[c].pc = "close"
    /\ LET lg == event_logger
           f == lg.file_obj
           dir1 == IF f # 0 THEN flushed_dir(logs_dir, lg.objs[f])
                   ELSE logs_dir
           lg1 == [lg EXCEPT
                     !.objs = IF f # 0 THEN [@ EXCEPT ![f] = obj_closed(@)]
                              ELSE @,
                     !.file_obj = 0, !.writer = 0, !.current_date = None,
                     !.call[c].pc = "exists"]
           res == collected(lg1, dir1)
       IN /\ event_logger' = res[1]
          /\ logs_dir' = res[2]
    /\ UNCHANGED <<narrVars, obsVars, hubPc, conn, subscriptions, net, http,
                   ack_events, evSet, ack_lock, log, retained, triggersIn,
                   acksIn, resets, pushes, pubFailed, everRaced, nodeVars,
                   utc_date, logger, csvObs, dashVars, storeVars,
                   contentVars, analyticsVars, runtimeVars, wireVars>>

\* _ensure_writer, line 79: file_exists = file_path.exists()
EnsureExists(c) ==
    /\ event_logger.call[c].pc = "exists"
    /\ event_logger' =
         [event_logger EXCEPT
            !.call[c].file_exists = logs_dir[event_logger.call[c].date].exists,
            !.call[c].pc = "open"]
    /\ UNCHANGED <<narrVars, obsVars, hubPc, conn, subscriptions, net, http,
                   ack_events, evSet, ack_lock, log, retained, triggersIn,
                   acksIn, resets, pushes, pubFailed, everRaced, nodeVars,
                   utc_date, logs_dir, logger, csvObs, dashVars, storeVars,
                   contentVars, analyticsVars, runtimeVars, wireVars>>

\* _ensure_writer, line 80: self._file_obj = file_path.open("a"), which
\* creates the file
EnsureOpen(c) ==
    /\ event_logger.call[c].pc = "open"
    /\ LET lg == event_logger
           d == lg.call[c].date
           lg1 == [lg EXCEPT
                     !.objs = Append(@, [date |-> d, closed |-> FALSE,
                                         buf |-> <<>>]),
                     !.file_obj = Len(lg.objs) + 1,
                     !.call[c].pc = "writer"]
           res == collected(lg1, [logs_dir EXCEPT ![d].exists = TRUE])
       IN /\ event_logger' = res[1]
          /\ logs_dir' = res[2]
    /\ UNCHANGED <<narrVars, obsVars, hubPc, conn, subscriptions, net, http,
                   ack_events, evSet, ack_lock, log, retained, triggersIn,
                   acksIn, resets, pushes, pubFailed, everRaced, nodeVars,
                   utc_date, logger, csvObs, dashVars, storeVars,
                   contentVars, analyticsVars, runtimeVars, wireVars>>

\* _ensure_writer, line 81: self._writer = csv.DictWriter(self._file_obj);
\* csv.writer(None) raises TypeError
EnsureWriter(c) ==
    /\ event_logger.call[c].pc = "writer"
    /\ LET lg == event_logger
           lg1 == IF lg.file_obj = 0 THEN call_raises(lg, c)
                  ELSE [lg EXCEPT
                          !.writer = lg.file_obj,
                          !.call[c].pc = IF lg.call[c].file_exists
                                         THEN "date" ELSE "header"]
           res == collected(lg1, logs_dir)
       IN /\ event_logger' = res[1]
          /\ logs_dir' = res[2]
    /\ UNCHANGED <<narrVars, obsVars, hubPc, conn, subscriptions, net, http,
                   ack_events, evSet, ack_lock, log, retained, triggersIn,
                   acksIn, resets, pushes, pubFailed, everRaced, nodeVars,
                   utc_date, logger, csvObs, dashVars, storeVars,
                   contentVars, analyticsVars, runtimeVars, wireVars>>

\* the writer that self._writer names takes a line: None has no such
\* method (AttributeError) and a closed file refuses the write (ValueError)
writer_takes(lg, c, line, pc) ==
    IF lg.writer = 0 \/ lg.objs[lg.writer].closed THEN call_raises(lg, c)
    ELSE [lg EXCEPT !.objs[lg.writer].buf = Append(@, line),
                    !.call[c].pc = pc]

\* _ensure_writer, lines 82-83: self._writer.writeheader() when the file
\* did not exist
EnsureHeader(c) ==
    /\ event_logger.call[c].pc = "header"
    /\ event_logger' = writer_takes(event_logger, c, Header, "date")
    /\ UNCHANGED <<narrVars, obsVars, hubPc, conn, subscriptions, net, http,
                   ack_events, evSet, ack_lock, log, retained, triggersIn,
                   acksIn, resets, pushes, pubFailed, everRaced, nodeVars,
                   utc_date, logs_dir, logger, csvObs, dashVars, storeVars,
                   contentVars, analyticsVars, runtimeVars, wireVars>>

\* _ensure_writer, lines 87-88: self._current_date = current_date
EnsureDate(c) ==
    /\ event_logger.call[c].pc = "date"
    /\ event_logger' =
         [event_logger EXCEPT
            !.current_date = Some(event_logger.call[c].date),
            !.call[c].pc = "row"]
    /\ UNCHANGED <<narrVars, obsVars, hubPc, conn, subscriptions, net, http,
                   ack_events, evSet, ack_lock, log, retained, triggersIn,
                   acksIn, resets, pushes, pubFailed, everRaced, nodeVars,
                   utc_date, logs_dir, logger, csvObs, dashVars, storeVars,
                   contentVars, analyticsVars, runtimeVars, wireVars>>

\* record_event, lines 34-45: RuntimeError when self._writer is None,
\* otherwise self._writer.writerow(row)
RecordRow(c) ==
    /\ event_logger.call[c].pc = "row"
    /\ event_logger' =
         writer_takes(event_logger, c, Row(event_logger.call[c].date),
                      "flush")
    /\ UNCHANGED <<narrVars, obsVars, hubPc, conn, subscriptions, net, http,
                   ack_events, evSet, ack_lock, log, retained, triggersIn,
                   acksIn, resets, pushes, pubFailed, everRaced, nodeVars,
                   utc_date, logs_dir, logger, csvObs, dashVars, storeVars,
                   contentVars, analyticsVars, runtimeVars, wireVars>>

\* record_event, lines 46-47: if self._file_obj: self._file_obj.flush(),
\* which raises ValueError on a closed file; then the call returns
RecordFlush(c) ==
    /\ event_logger.call[c].pc = "flush"
    /\ LET lg == event_logger
           f == lg.file_obj
       IN IF f = 0
          THEN /\ event_logger' = [lg EXCEPT !.call[c] = CallIdle]
               /\ UNCHANGED logs_dir
          ELSE IF lg.objs[f].closed
          THEN /\ event_logger' = call_raises(lg, c)
               /\ UNCHANGED logs_dir
          ELSE /\ event_logger' = [lg EXCEPT !.objs[f].buf = <<>>,
                                             !.call[c] = CallIdle]
               /\ logs_dir' = flushed_dir(logs_dir, lg.objs[f])
    /\ UNCHANGED <<narrVars, obsVars, hubPc, conn, subscriptions, net, http,
                   ack_events, evSet, ack_lock, log, retained, triggersIn,
                   acksIn, resets, pushes, pubFailed, everRaced, nodeVars,
                   utc_date, logger, csvObs, dashVars, storeVars,
                   contentVars, analyticsVars, runtimeVars, wireVars>>

RecordStep(c) ==
    \/ EnsureCheck(c)
    \/ EnsureClose(c)
    \/ EnsureExists(c)
    \/ EnsureOpen(c)
    \/ EnsureWriter(c)
    \/ EnsureHeader(c)
    \/ EnsureDate(c)
    \/ RecordRow(c)
    \/ RecordFlush(c)

NextRecord ==
    \/ \E c \in Callers : RecordStart(c)
    \/ \E c \in Callers : RecordStep(c)
    \/ \E d \in Days : DayChanges(d)

SpecRecord == Init /\ [][NextRecord]_vars

\* what the file of date d holds once every open file object on it is
\* closed: the lines on disk, then the buffered ones
RECURSIVE pending(_, _, _)
pending(lg, d, i) ==
    IF i > Len(lg.objs) THEN <<>>
    ELSE (IF lg.objs[i].date = d THEN lg.objs[i].buf ELSE <<>>)
             \o pending(lg, d, i + 1)
FileLines(d) == logs_dir[d].lines \o pending(event_logger, d, 1)

CountOf(lines, x) == Cardinality({i \in DOMAIN lines : lines[i] = x})

NoCallRunning == \A c \in Callers : event_logger.call[c].pc = "idle"

\* no call raised, each file holds the header once at most, and when no
\* call is running the file of each date holds the header first and one
\* row for each call made on that date
RecordsComplete ==
    /\ event_logger.raised = 0
    /\ \A d \in Days : CountOf(FileLines(d), Header) <= 1
    /\ NoCallRunning =>
         \A d \in Days :
            /\ CountOf(FileLines(d), Row(d)) = event_logger.due[d]
            /\ Len(FileLines(d)) =
                 (IF event_logger.due[d] > 0 THEN 1 ELSE 0)
                     + event_logger.due[d]
            /\ event_logger.due[d] > 0 => FileLines(d)[1] = Header

\* C40: when record_event is called concurrently from the network thread
\* and from an HTTP thread, each call appends exactly one row to the file
\* of its day and every file holds the header exactly once, also when the
\* calls straddle a change of the UTC date.
C40_ConcurrentRecord == []RecordsComplete

\* the same for calls that never overlap, day changes included
RecordsComplete_OneAtATime ==
    [](~event_logger.overlap => RecordsComplete)

=============================================================================
